---- MODULE Spec2Model ----
(***************************************************************************)
(* Kisan Mitra mandi-price / agricultural-news backend (src/app.py).       *)
(*                                                                         *)
(* The model covers the in-memory caches, the clock, the upstream fetch    *)
(* strategies, the record normalizer, the filter and the request handlers. *)
(*                                                                         *)
(* Python values are encoded as follows.                                   *)
(*   str    a sequence of one-character strings: "Rice" is                 *)
(*          <<"R","i","c","e">>, so that lower(), strip(), len() and       *)
(*          float() are computed character by character.                   *)
(*   None   where a str is expected: the one-element sequence <<"None">>   *)
(*          (its element is not a single character, so it differs from     *)
(*          every str).  In a cache field: the empty sequence Nil, while a *)
(*          value v that is present is the one-element sequence Some(v).   *)
(*   float  prices are counted in hundredths: 32.75 is 3275.               *)
(*   dict   a function from keys to values; a missing key is a key that    *)
(*          is not in the DOMAIN.                                          *)
(*   time   whole seconds since the process started.                       *)
(***************************************************************************)
EXTENDS Integers, Sequences, FiniteSets, TLC

VARIABLES
  price_cache,     \* app.py:37  {'data', 'timestamp'} of the price cache
  news_cache,      \* app.py:43  {'data', 'timestamp'} of the news cache
  now,             \* the wall clock read by time.time() / datetime.now()
  GOV_API_KEY,     \* app.py:30  the data.gov.in key read at start-up
  NEWS_API_KEY,    \* app.py:33  the NewsAPI key read at start-up
  request,         \* the query string of the request handled last
  fetched,         \* what the fetch of that request returned or raised
  cache_scope,     \* history: "none" while the price cache is empty, else
                   \* whether the cached batch was fetched for a request
                   \* with filters ("scoped") or without ("unscoped")
  news_scope,      \* history: Nil while the news cache is empty, else the
                   \* category of the request the cached batch was
                   \* fetched for
  response,        \* the response envelope returned last
  upstream_calls,  \* the upstream calls issued while handling that request
  threads,         \* per request thread (app.py:720, threaded=True): where
                   \* it stands in get_mandi_prices and its local variables
  writer           \* history: for each field of the price cache, the call
                   \* of cache_response that wrote it last, named by its
                   \* thread and the time at which it began

vars == <<price_cache, news_cache, now, GOV_API_KEY, NEWS_API_KEY,
          request, fetched, cache_scope, news_scope, response,
          upstream_calls, threads, writer>>

-----------------------------------------------------------------------------
(* Bounds of the model.                                                    *)

\* An upstream body carries at most MaxRecords records, all different.
MaxRecords == 2
\* Only the first MaxLive partitions of the diverse fetch may answer with
\* records; the others fail.
MaxLive == 3
\* The number of threads that handle requests at the same time.
MaxThreads == 2

-----------------------------------------------------------------------------
(* Program constants.                                                      *)

PriceCacheDuration == 300
NewsCacheDuration == 1800
PriceLimit == 35
MinPerState == 5
MaxApiLimit == 1000
HttpOk == 200
NewsLimit == 20
MaxPageSize == 100
ExcerptLen == 200

-----------------------------------------------------------------------------
(* Python strings.                                                         *)

None == <<"None">>

\* An optional value (a cache field that is None until the first put).
Nil == <<>>
Some(v) == <<v>>
The(o) == o[1]

Min(a, b) == IF a < b THEN a ELSE b
Max(a, b) == IF a > b THEN a ELSE b

UpperCase == <<"A","B","C","D","E","F","G","H","I","J","K","L","M",
               "N","O","P","Q","R","S","T","U","V","W","X","Y","Z">>
LowerCase == <<"a","b","c","d","e","f","g","h","i","j","k","l","m",
               "n","o","p","q","r","s","t","u","v","w","x","y","z">>
Whitespace == {" ", "\t", "\n"}

UpperSet == {UpperCase[i] : i \in 1..26}
LowerOf == [c \in UpperSet |-> LowerCase[CHOOSE i \in 1..26 : UpperCase[i] = c]]

LowerChar(c) == IF c \in UpperSet THEN LowerOf[c] ELSE c

\* str.lower()
Lower(s) == [i \in 1..Len(s) |-> LowerChar(s[i])]

\* str.lstrip(), str.rstrip(), str.strip()
RECURSIVE LStrip(_)
LStrip(s) ==
  IF s # <<>> /\ s[1] \in Whitespace THEN LStrip(Tail(s)) ELSE s

RECURSIVE RStrip(_)
RStrip(s) ==
  IF s # <<>> /\ s[Len(s)] \in Whitespace
    THEN RStrip(SubSeq(s, 1, Len(s) - 1))
    ELSE s

Strip(s) == RStrip(LStrip(s))

\* `needle in haystack` on two str
Contains(haystack, needle) ==
  \E i \in 0..(Len(haystack) - Len(needle)) :
    \A j \in 1..Len(needle) : haystack[i + j] = needle[j]

\* Python truthiness of a str-or-None value
Truthy(v) == v # None /\ v # <<>>

\* dict.get(key, default)
Get(d, key, default) == IF key \in DOMAIN d THEN d[key] ELSE default

\* list[:n]
Take(s, n) == SubSeq(s, 1, Min(n, Len(s)))

Digits == <<"0","1","2","3","4","5","6","7","8","9">>
DigitSet == {Digits[i] : i \in 1..10}
DigitOf == [c \in DigitSet |-> (CHOOSE i \in 1..10 : Digits[i] = c) - 1]
IsDigit(c) == c \in DigitSet
DigitVal(c) == DigitOf[c]

RECURSIVE DecVal(_)
DecVal(ds) ==
  IF ds = <<>> THEN 0
  ELSE 10 * DecVal(SubSeq(ds, 1, Len(ds) - 1)) + DigitVal(ds[Len(ds)])

\* float(s) for a str s, in hundredths.  [ok |-> FALSE] is ValueError.
\* Modelled on decimal literals with at most two fractional digits
\* ("2150", "-5", "32.75", " 40 "); anything else that is not such a
\* literal ("abc", "", "1,200") is unparseable, as in Python.
Float(s) ==
  LET t    == Strip(s)
      sgn  == t # <<>> /\ t[1] \in {"-", "+"}
      neg  == t # <<>> /\ t[1] = "-"
      body == IF sgn THEN Tail(t) ELSE t
      dots == {i \in 1..Len(body) : body[i] = "."}
      dot  == IF dots = {} THEN Len(body) + 1 ELSE CHOOSE i \in dots : TRUE
      ip   == SubSeq(body, 1, dot - 1)
      fp   == SubSeq(body, dot + 1, Len(body))
      wellformed ==
        /\ Cardinality(dots) <= 1
        /\ Len(ip) + Len(fp) > 0
        /\ Len(fp) <= 2
        /\ \A i \in 1..Len(ip) : IsDigit(ip[i])
        /\ \A i \in 1..Len(fp) : IsDigit(fp[i])
      frac == IF Len(fp) = 0 THEN 0
              ELSE IF Len(fp) = 1 THEN 10 * DecVal(fp) ELSE DecVal(fp)
      mag  == 100 * DecVal(ip) + frac
  IN  IF wellformed THEN [ok |-> TRUE, v |-> IF neg THEN 0 - mag ELSE mag]
      ELSE [ok |-> FALSE]

\* list[:n] for any integer n: a negative n counts from the end.
Slice(s, n) ==
  IF n >= 0 THEN Take(s, n) ELSE SubSeq(s, 1, Max(0, Len(s) + n))

\* int(s) for a str s.  [ok |-> FALSE] is ValueError.  Modelled on decimal
\* literals with an optional sign and surrounding whitespace ("20", "-1",
\* " 5 "); anything else ("abc", "", "2.5") is unparseable, as in Python.
int(s) ==
  LET t    == Strip(s)
      sgn  == t # <<>> /\ t[1] \in {"-", "+"}
      neg  == t # <<>> /\ t[1] = "-"
      body == IF sgn THEN Tail(t) ELSE t
      wellformed == body # <<>> /\ \A i \in 1..Len(body) : IsDigit(body[i])
  IN  IF wellformed
        THEN [ok |-> TRUE, v |-> IF neg THEN 0 - DecVal(body) ELSE DecVal(body)]
      ELSE [ok |-> FALSE]

\* The characters of a date in ascending code-point order, and a < b on two
\* str made of them (Python compares str code point by code point).
DateChars == <<"-", "0", "1", "2", "3", "4", "5", "6", "7", "8", "9">>
DateCharSet == {DateChars[i] : i \in 1..Len(DateChars)}
OrdOf == [c \in DateCharSet |-> CHOOSE i \in 1..Len(DateChars) : DateChars[i] = c]

RECURSIVE StrLess(_, _)
StrLess(a, b) ==
  IF b = <<>> THEN FALSE
  ELSE IF a = <<>> THEN TRUE
  ELSE IF a[1] = b[1] THEN StrLess(Tail(a), Tail(b))
  ELSE OrdOf[a[1]] < OrdOf[b[1]]

-----------------------------------------------------------------------------
(* Cache store (app.py:37-60, 205-216).                                    *)

\* Mutant: the put stores the batch and leaves the old timestamp.
cache_response_unstamped(data, t) ==
  [data |-> Some(data), timestamp |-> price_cache.timestamp]

\* cache_response / cache_news_response: the entry after the put
cache_response(data, t) == [data |-> Some(data), timestamp |-> Some(t)]
cache_news_response(data, t) == [data |-> Some(data), timestamp |-> Some(t)]

\* Mutant: a populated price entry counts as valid whatever its age.
is_cache_valid_ageless ==
  price_cache.data # Nil /\ price_cache.timestamp # Nil

is_cache_valid ==
  IF price_cache.data = Nil \/ price_cache.timestamp = Nil THEN FALSE
  ELSE now - The(price_cache.timestamp) < PriceCacheDuration

\* Mutant: a news entry exactly as old as its window still counts as valid.
is_news_cache_valid_inclusive ==
  IF news_cache.data = Nil \/ news_cache.timestamp = Nil THEN FALSE
  ELSE now - The(news_cache.timestamp) <= NewsCacheDuration

is_news_cache_valid ==
  IF news_cache.data = Nil \/ news_cache.timestamp = Nil THEN FALSE
  ELSE now - The(news_cache.timestamp) < NewsCacheDuration

-----------------------------------------------------------------------------
(* Fallback provider (app.py:313-405).                                     *)

\* Mutant: the static dataset is empty.
get_fallback_data_empty == <<>>

get_fallback_data ==
  <<
    [name |-> <<"W", "h", "e", "a", "t">>, price |-> 215000, state |-> <<"P", "u", "n", "j", "a", "b">>,
     district |-> <<"A", "m", "r", "i", "t", "s", "a", "r">>, market |-> <<"A", "P", "M", "C", " ", "A", "m", "r", "i", "t", "s", "a", "r">>],
    [name |-> <<"R", "i", "c", "e">>, price |-> 195000, state |-> <<"P", "u", "n", "j", "a", "b">>,
     district |-> <<"L", "u", "d", "h", "i", "a", "n", "a">>, market |-> <<"A", "P", "M", "C", " ", "L", "u", "d", "h", "i", "a", "n", "a">>],
    [name |-> <<"M", "a", "i", "z", "e">>, price |-> 175000, state |-> <<"P", "u", "n", "j", "a", "b">>,
     district |-> <<"J", "a", "l", "a", "n", "d", "h", "a", "r">>, market |-> <<"A", "P", "M", "C", " ", "J", "a", "l", "a", "n", "d", "h", "a", "r">>],
    [name |-> <<"R", "i", "c", "e">>, price |-> 185000, state |-> <<"H", "a", "r", "y", "a", "n", "a">>,
     district |-> <<"K", "a", "r", "n", "a", "l">>, market |-> <<"A", "P", "M", "C", " ", "K", "a", "r", "n", "a", "l">>],
    [name |-> <<"W", "h", "e", "a", "t">>, price |-> 210000, state |-> <<"H", "a", "r", "y", "a", "n", "a">>,
     district |-> <<"R", "o", "h", "t", "a", "k">>, market |-> <<"A", "P", "M", "C", " ", "R", "o", "h", "t", "a", "k">>],
    [name |-> <<"M", "u", "s", "t", "a", "r", "d">>, price |-> 510000, state |-> <<"H", "a", "r", "y", "a", "n", "a">>,
     district |-> <<"H", "i", "s", "a", "r">>, market |-> <<"A", "P", "M", "C", " ", "H", "i", "s", "a", "r">>],
    [name |-> <<"M", "a", "i", "z", "e">>, price |-> 165000, state |-> <<"M", "a", "d", "h", "y", "a", " ", "P", "r", "a", "d", "e", "s", "h">>,
     district |-> <<"I", "n", "d", "o", "r", "e">>, market |-> <<"A", "P", "M", "C", " ", "I", "n", "d", "o", "r", "e">>],
    [name |-> <<"S", "o", "y", "b", "e", "a", "n">>, price |-> 420000, state |-> <<"M", "a", "d", "h", "y", "a", " ", "P", "r", "a", "d", "e", "s", "h">>,
     district |-> <<"B", "h", "o", "p", "a", "l">>, market |-> <<"A", "P", "M", "C", " ", "B", "h", "o", "p", "a", "l">>],
    [name |-> <<"W", "h", "e", "a", "t">>, price |-> 208000, state |-> <<"M", "a", "d", "h", "y", "a", " ", "P", "r", "a", "d", "e", "s", "h">>,
     district |-> <<"G", "w", "a", "l", "i", "o", "r">>, market |-> <<"A", "P", "M", "C", " ", "G", "w", "a", "l", "i", "o", "r">>],
    [name |-> <<"S", "u", "g", "a", "r", "c", "a", "n", "e">>, price |-> 32500, state |-> <<"U", "t", "t", "a", "r", " ", "P", "r", "a", "d", "e", "s", "h">>,
     district |-> <<"M", "e", "e", "r", "u", "t">>, market |-> <<"A", "P", "M", "C", " ", "M", "e", "e", "r", "u", "t">>],
    [name |-> <<"P", "o", "t", "a", "t", "o">>, price |-> 2800, state |-> <<"U", "t", "t", "a", "r", " ", "P", "r", "a", "d", "e", "s", "h">>,
     district |-> <<"A", "g", "r", "a">>, market |-> <<"A", "P", "M", "C", " ", "A", "g", "r", "a">>],
    [name |-> <<"R", "i", "c", "e">>, price |-> 190000, state |-> <<"U", "t", "t", "a", "r", " ", "P", "r", "a", "d", "e", "s", "h">>,
     district |-> <<"L", "u", "c", "k", "n", "o", "w">>, market |-> <<"A", "P", "M", "C", " ", "L", "u", "c", "k", "n", "o", "w">>],
    [name |-> <<"W", "h", "e", "a", "t">>, price |-> 212000, state |-> <<"U", "t", "t", "a", "r", " ", "P", "r", "a", "d", "e", "s", "h">>,
     district |-> <<"K", "a", "n", "p", "u", "r">>, market |-> <<"A", "P", "M", "C", " ", "K", "a", "n", "p", "u", "r">>],
    [name |-> <<"C", "o", "t", "t", "o", "n">>, price |-> 650000, state |-> <<"G", "u", "j", "a", "r", "a", "t">>,
     district |-> <<"A", "h", "m", "e", "d", "a", "b", "a", "d">>, market |-> <<"A", "P", "M", "C", " ", "A", "h", "m", "e", "d", "a", "b", "a", "d">>],
    [name |-> <<"G", "r", "o", "u", "n", "d", "n", "u", "t">>, price |-> 580000, state |-> <<"G", "u", "j", "a", "r", "a", "t">>,
     district |-> <<"S", "u", "r", "a", "t">>, market |-> <<"A", "P", "M", "C", " ", "S", "u", "r", "a", "t">>],
    [name |-> <<"W", "h", "e", "a", "t">>, price |-> 209000, state |-> <<"G", "u", "j", "a", "r", "a", "t">>,
     district |-> <<"V", "a", "d", "o", "d", "a", "r", "a">>, market |-> <<"A", "P", "M", "C", " ", "V", "a", "d", "o", "d", "a", "r", "a">>],
    [name |-> <<"G", "r", "o", "u", "n", "d", "n", "u", "t">>, price |-> 580000, state |-> <<"R", "a", "j", "a", "s", "t", "h", "a", "n">>,
     district |-> <<"K", "o", "t", "a">>, market |-> <<"A", "P", "M", "C", " ", "K", "o", "t", "a">>],
    [name |-> <<"M", "u", "s", "t", "a", "r", "d">>, price |-> 520000, state |-> <<"R", "a", "j", "a", "s", "t", "h", "a", "n">>,
     district |-> <<"B", "h", "a", "r", "a", "t", "p", "u", "r">>, market |-> <<"A", "P", "M", "C", " ", "B", "h", "a", "r", "a", "t", "p", "u", "r">>],
    [name |-> <<"W", "h", "e", "a", "t">>, price |-> 207000, state |-> <<"R", "a", "j", "a", "s", "t", "h", "a", "n">>,
     district |-> <<"J", "a", "i", "p", "u", "r">>, market |-> <<"A", "P", "M", "C", " ", "J", "a", "i", "p", "u", "r">>],
    [name |-> <<"S", "o", "y", "b", "e", "a", "n">>, price |-> 420000, state |-> <<"M", "a", "h", "a", "r", "a", "s", "h", "t", "r", "a">>,
     district |-> <<"N", "a", "g", "p", "u", "r">>, market |-> <<"A", "P", "M", "C", " ", "N", "a", "g", "p", "u", "r">>],
    [name |-> <<"O", "n", "i", "o", "n">>, price |-> 3275, state |-> <<"M", "a", "h", "a", "r", "a", "s", "h", "t", "r", "a">>,
     district |-> <<"N", "a", "s", "h", "i", "k">>, market |-> <<"A", "P", "M", "C", " ", "N", "a", "s", "h", "i", "k">>],
    [name |-> <<"C", "o", "t", "t", "o", "n">>, price |-> 645000, state |-> <<"M", "a", "h", "a", "r", "a", "s", "h", "t", "r", "a">>,
     district |-> <<"P", "u", "n", "e">>, market |-> <<"A", "P", "M", "C", " ", "P", "u", "n", "e">>],
    [name |-> <<"W", "h", "e", "a", "t">>, price |-> 206000, state |-> <<"M", "a", "h", "a", "r", "a", "s", "h", "t", "r", "a">>,
     district |-> <<"M", "u", "m", "b", "a", "i">>, market |-> <<"A", "P", "M", "C", " ", "M", "u", "m", "b", "a", "i">>],
    [name |-> <<"T", "o", "m", "a", "t", "o">>, price |-> 4550, state |-> <<"K", "a", "r", "n", "a", "t", "a", "k", "a">>,
     district |-> <<"B", "a", "n", "g", "a", "l", "o", "r", "e">>, market |-> <<"A", "P", "M", "C", " ", "B", "a", "n", "g", "a", "l", "o", "r", "e">>],
    [name |-> <<"R", "i", "c", "e">>, price |-> 188000, state |-> <<"K", "a", "r", "n", "a", "t", "a", "k", "a">>,
     district |-> <<"M", "y", "s", "o", "r", "e">>, market |-> <<"A", "P", "M", "C", " ", "M", "y", "s", "o", "r", "e">>],
    [name |-> <<"M", "a", "i", "z", "e">>, price |-> 168000, state |-> <<"K", "a", "r", "n", "a", "t", "a", "k", "a">>,
     district |-> <<"H", "u", "b", "l", "i">>, market |-> <<"A", "P", "M", "C", " ", "H", "u", "b", "l", "i">>],
    [name |-> <<"T", "u", "r", "m", "e", "r", "i", "c">>, price |-> 12500, state |-> <<"T", "e", "l", "a", "n", "g", "a", "n", "a">>,
     district |-> <<"N", "i", "z", "a", "m", "a", "b", "a", "d">>, market |-> <<"A", "P", "M", "C", " ", "N", "i", "z", "a", "m", "a", "b", "a", "d">>],
    [name |-> <<"C", "o", "t", "t", "o", "n">>, price |-> 648000, state |-> <<"T", "e", "l", "a", "n", "g", "a", "n", "a">>,
     district |-> <<"H", "y", "d", "e", "r", "a", "b", "a", "d">>, market |-> <<"A", "P", "M", "C", " ", "H", "y", "d", "e", "r", "a", "b", "a", "d">>],
    [name |-> <<"R", "i", "c", "e">>, price |-> 192000, state |-> <<"T", "e", "l", "a", "n", "g", "a", "n", "a">>,
     district |-> <<"W", "a", "r", "a", "n", "g", "a", "l">>, market |-> <<"A", "P", "M", "C", " ", "W", "a", "r", "a", "n", "g", "a", "l">>],
    [name |-> <<"R", "i", "c", "e">>, price |-> 194000, state |-> <<"A", "n", "d", "h", "r", "a", " ", "P", "r", "a", "d", "e", "s", "h">>,
     district |-> <<"V", "i", "j", "a", "y", "a", "w", "a", "d", "a">>, market |-> <<"A", "P", "M", "C", " ", "V", "i", "j", "a", "y", "a", "w", "a", "d", "a">>],
    [name |-> <<"C", "o", "t", "t", "o", "n">>, price |-> 652000, state |-> <<"A", "n", "d", "h", "r", "a", " ", "P", "r", "a", "d", "e", "s", "h">>,
     district |-> <<"G", "u", "n", "t", "u", "r">>, market |-> <<"A", "P", "M", "C", " ", "G", "u", "n", "t", "u", "r">>],
    [name |-> <<"C", "h", "i", "l", "l", "i">>, price |-> 18000, state |-> <<"A", "n", "d", "h", "r", "a", " ", "P", "r", "a", "d", "e", "s", "h">>,
     district |-> <<"K", "u", "r", "n", "o", "o", "l">>, market |-> <<"A", "P", "M", "C", " ", "K", "u", "r", "n", "o", "o", "l">>]
  >>

\* A character outside ASCII is written as its code point.
get_fallback_news ==
  <<
    [
     id |-> 1,
     title |->
       <<"G", "o", "v", "e", "r", "n", "m", "e", "n", "t", " ", "A", "n",
         "n", "o", "u", "n", "c", "e", "s", " ", "N", "e", "w", " ", "M",
         "S", "P", " ", "f", "o", "r", " ", "K", "h", "a", "r", "i", "f",
         " ", "C", "r", "o", "p", "s", " ", "2", "0", "2", "4", "-", "2",
         "5">>,
     excerpt |->
       <<"T", "h", "e", " ", "C", "a", "b", "i", "n", "e", "t", " ", "C",
         "o", "m", "m", "i", "t", "t", "e", "e", " ", "o", "n", " ", "E",
         "c", "o", "n", "o", "m", "i", "c", " ", "A", "f", "f", "a", "i",
         "r", "s", " ", "h", "a", "s", " ", "a", "p", "p", "r", "o", "v",
         "e", "d", " ", "n", "e", "w", " ", "M", "i", "n", "i", "m", "u",
         "m", " ", "S", "u", "p", "p", "o", "r", "t", " ", "P", "r", "i",
         "c", "e", "s", " ", "f", "o", "r", " ", "1", "4", " ", "K", "h",
         "a", "r", "i", "f", " ", "c", "r", "o", "p", "s", ",", " ", "w",
         "i", "t", "h", " ", "p", "a", "d", "d", "y", " ", "M", "S", "P",
         " ", "i", "n", "c", "r", "e", "a", "s", "e", "d", " ", "b", "y",
         " ", "U+20B9", "1", "1", "7", " ", "p", "e", "r", " ", "q", "u",
         "i", "n", "t", "a", "l", ".">>,
     content |->
       <<"T", "h", "e", " ", "g", "o", "v", "e", "r", "n", "m", "e", "n",
         "t", " ", "h", "a", "s", " ", "a", "n", "n", "o", "u", "n", "c",
         "e", "d", " ", "s", "i", "g", "n", "i", "f", "i", "c", "a", "n",
         "t", " ", "i", "n", "c", "r", "e", "a", "s", "e", "s", " ", "i",
         "n", " ", "M", "S", "P", " ", "f", "o", "r", " ", "m", "a", "j",
         "o", "r", " ", "K", "h", "a", "r", "i", "f", " ", "c", "r", "o",
         "p", "s", " ", "f", "o", "r", " ", "t", "h", "e", " ", "2", "0",
         "2", "4", "-", "2", "5", " ", "s", "e", "a", "s", "o", "n", ".",
         " ", "P", "a", "d", "d", "y", " ", "M", "S", "P", " ", "h", "a",
         "s", " ", "b", "e", "e", "n", " ", "i", "n", "c", "r", "e", "a",
         "s", "e", "d", " ", "b", "y", " ", "U+20B9", "1", "1", "7", " ",
         "p", "e", "r", " ", "q", "u", "i", "n", "t", "a", "l", " ", "t",
         "o", " ", "U+20B9", "2", ",", "3", "0", "0", " ", "p", "e", "r",
         " ", "q", "u", "i", "n", "t", "a", "l", ".", " ", "O", "t", "h",
         "e", "r", " ", "m", "a", "j", "o", "r", " ", "i", "n", "c", "r",
         "e", "a", "s", "e", "s", " ", "i", "n", "c", "l", "u", "d", "e",
         " ", "m", "a", "i", "z", "e", " ", "(", "U+20B9", "1", "0", "5",
         ")", ",", " ", "c", "o", "t", "t", "o", "n", " ", "(", "U+20B9",
         "1", "5", "0", ")", ",", " ", "a", "n", "d", " ", "g", "r", "o",
         "u", "n", "d", "n", "u", "t", " ", "(", "U+20B9", "2", "0", "0",
         ")", ".", " ", "T", "h", "i", "s", " ", "m", "o", "v", "e", " ",
         "i", "s", " ", "e", "x", "p", "e", "c", "t", "e", "d", " ", "t",
         "o", " ", "b", "e", "n", "e", "f", "i", "t", " ", "o", "v", "e",
         "r", " ", "1", "0", " ", "m", "i", "l", "l", "i", "o", "n", " ",
         "f", "a", "r", "m", "e", "r", "s", " ", "a", "c", "r", "o", "s",
         "s", " ", "t", "h", "e", " ", "c", "o", "u", "n", "t", "r", "y",
         ".">>,
     category |->
       <<"p", "o", "l", "i", "c", "y">>,
     date |->
       <<"2", "0", "2", "4", "-", "0", "1", "-", "1", "5">>,
     source |->
       <<"M", "i", "n", "i", "s", "t", "r", "y", " ", "o", "f", " ", "A",
         "g", "r", "i", "c", "u", "l", "t", "u", "r", "e">>,
     url |->
       <<"#">>,
     image |->
       <<"U+1F3DB", "U+FE0F">> ],
    [
     id |-> 2,
     title |->
       <<"W", "h", "e", "a", "t", " ", "P", "r", "i", "c", "e", "s", " ",
         "S", "u", "r", "g", "e", " ", "1", "5", "%", " ", "D", "u", "e",
         " ", "t", "o", " ", "S", "u", "p", "p", "l", "y", " ", "S", "h",
         "o", "r", "t", "a", "g", "e">>,
     excerpt |->
       <<"W", "h", "e", "a", "t", " ", "p", "r", "i", "c", "e", "s", " ",
         "h", "a", "v", "e", " ", "i", "n", "c", "r", "e", "a", "s", "e",
         "d", " ", "s", "i", "g", "n", "i", "f", "i", "c", "a", "n", "t",
         "l", "y", " ", "a", "c", "r", "o", "s", "s", " ", "m", "a", "j",
         "o", "r", " ", "m", "a", "n", "d", "i", "s", " ", "d", "u", "e",
         " ", "t", "o", " ", "r", "e", "d", "u", "c", "e", "d", " ", "p",
         "r", "o", "d", "u", "c", "t", "i", "o", "n", " ", "a", "n", "d",
         " ", "i", "n", "c", "r", "e", "a", "s", "e", "d", " ", "d", "e",
         "m", "a", "n", "d", " ", "f", "r", "o", "m", " ", "f", "l", "o",
         "u", "r", " ", "m", "i", "l", "l", "s", ".">>,
     content |->
       <<"W", "h", "e", "a", "t", " ", "p", "r", "i", "c", "e", "s", " ",
         "h", "a", "v", "e", " ", "s", "e", "e", "n", " ", "a", " ", "s",
         "h", "a", "r", "p", " ", "i", "n", "c", "r", "e", "a", "s", "e",
         " ", "o", "f", " ", "1", "5", "%", " ", "i", "n", " ", "t", "h",
         "e", " ", "l", "a", "s", "t", " ", "m", "o", "n", "t", "h", " ",
         "a", "c", "r", "o", "s", "s", " ", "m", "a", "j", "o", "r", " ",
         "a", "g", "r", "i", "c", "u", "l", "t", "u", "r", "a", "l", " ",
         "m", "a", "n", "d", "i", "s", ".", " ", "T", "h", "e", " ", "s",
         "u", "r", "g", "e", " ", "i", "s", " ", "a", "t", "t", "r", "i",
         "b", "u", "t", "e", "d", " ", "t", "o", " ", "l", "o", "w", "e",
         "r", " ", "p", "r", "o", "d", "u", "c", "t", "i", "o", "n", " ",
         "d", "u", "e", " ", "t", "o", " ", "a", "d", "v", "e", "r", "s",
         "e", " ", "w", "e", "a", "t", "h", "e", "r", " ", "c", "o", "n",
         "d", "i", "t", "i", "o", "n", "s", " ", "a", "n", "d", " ", "i",
         "n", "c", "r", "e", "a", "s", "e", "d", " ", "d", "e", "m", "a",
         "n", "d", " ", "f", "r", "o", "m", " ", "f", "l", "o", "u", "r",
         " ", "m", "i", "l", "l", "s", ".", " ", "E", "x", "p", "e", "r",
         "t", "s", " ", "s", "u", "g", "g", "e", "s", "t", " ", "p", "r",
         "i", "c", "e", "s", " ", "m", "a", "y", " ", "s", "t", "a", "b",
         "i", "l", "i", "z", "e", " ", "o", "n", "c", "e", " ", "t", "h",
         "e", " ", "n", "e", "w", " ", "c", "r", "o", "p", " ", "a", "r",
         "r", "i", "v", "e", "s", " ", "i", "n", " ", "M", "a", "r", "c",
         "h", ".">>,
     category |->
       <<"m", "a", "r", "k", "e", "t">>,
     date |->
       <<"2", "0", "2", "4", "-", "0", "1", "-", "1", "4">>,
     source |->
       <<"A", "g", "r", "i", "c", "u", "l", "t", "u", "r", "a", "l", " ",
         "M", "a", "r", "k", "e", "t", " ", "I", "n", "t", "e", "l", "l",
         "i", "g", "e", "n", "c", "e">>,
     url |->
       <<"#">>,
     image |->
       <<"U+1F33E">> ],
    [
     id |-> 3,
     title |->
       <<"I", "M", "D", " ", "P", "r", "e", "d", "i", "c", "t", "s", " ",
         "N", "o", "r", "m", "a", "l", " ", "M", "o", "n", "s", "o", "o",
         "n", " ", "f", "o", "r", " ", "2", "0", "2", "4">>,
     excerpt |->
       <<"I", "n", "d", "i", "a", " ", "M", "e", "t", "e", "o", "r", "o",
         "l", "o", "g", "i", "c", "a", "l", " ", "D", "e", "p", "a", "r",
         "t", "m", "e", "n", "t", " ", "f", "o", "r", "e", "c", "a", "s",
         "t", "s", " ", "n", "o", "r", "m", "a", "l", " ", "r", "a", "i",
         "n", "f", "a", "l", "l", " ", "f", "o", "r", " ", "t", "h", "e",
         " ", "u", "p", "c", "o", "m", "i", "n", "g", " ", "m", "o", "n",
         "s", "o", "o", "n", " ", "s", "e", "a", "s", "o", "n", ",", " ",
         "w", "h", "i", "c", "h", " ", "i", "s", " ", "e", "x", "p", "e",
         "c", "t", "e", "d", " ", "t", "o", " ", "b", "o", "o", "s", "t",
         " ", "a", "g", "r", "i", "c", "u", "l", "t", "u", "r", "a", "l",
         " ", "p", "r", "o", "d", "u", "c", "t", "i", "o", "n", ".">>,
     content |->
       <<"T", "h", "e", " ", "I", "n", "d", "i", "a", " ", "M", "e", "t",
         "e", "o", "r", "o", "l", "o", "g", "i", "c", "a", "l", " ", "D",
         "e", "p", "a", "r", "t", "m", "e", "n", "t", " ", "h", "a", "s",
         " ", "p", "r", "e", "d", "i", "c", "t", "e", "d", " ", "n", "o",
         "r", "m", "a", "l", " ", "m", "o", "n", "s", "o", "o", "n", " ",
         "r", "a", "i", "n", "f", "a", "l", "l", " ", "f", "o", "r", " ",
         "2", "0", "2", "4", ",", " ", "w", "i", "t", "h", " ", "9", "6",
         "%", " ", "o", "f", " ", "t", "h", "e", " ", "l", "o", "n", "g",
         "-", "p", "e", "r", "i", "o", "d", " ", "a", "v", "e", "r", "a",
         "g", "e", ".", " ", "T", "h", "i", "s", " ", "i", "s", " ", "g",
         "o", "o", "d", " ", "n", "e", "w", "s", " ", "f", "o", "r", " ",
         "f", "a", "r", "m", "e", "r", "s", " ", "a", "s", " ", "n", "o",
         "r", "m", "a", "l", " ", "m", "o", "n", "s", "o", "o", "n", " ",
         "i", "s", " ", "c", "r", "u", "c", "i", "a", "l", " ", "f", "o",
         "r", " ", "K", "h", "a", "r", "i", "f", " ", "c", "r", "o", "p",
         " ", "p", "r", "o", "d", "u", "c", "t", "i", "o", "n", ".", " ",
         "T", "h", "e", " ", "f", "o", "r", "e", "c", "a", "s", "t", " ",
         "s", "u", "g", "g", "e", "s", "t", "s", " ", "w", "e", "l", "l",
         "-", "d", "i", "s", "t", "r", "i", "b", "u", "t", "e", "d", " ",
         "r", "a", "i", "n", "f", "a", "l", "l", " ", "a", "c", "r", "o",
         "s", "s", " ", "m", "o", "s", "t", " ", "a", "g", "r", "i", "c",
         "u", "l", "t", "u", "r", "a", "l", " ", "r", "e", "g", "i", "o",
         "n", "s", ".">>,
     category |->
       <<"w", "e", "a", "t", "h", "e", "r">>,
     date |->
       <<"2", "0", "2", "4", "-", "0", "1", "-", "1", "3">>,
     source |->
       <<"I", "n", "d", "i", "a", " ", "M", "e", "t", "e", "o", "r", "o",
         "l", "o", "g", "i", "c", "a", "l", " ", "D", "e", "p", "a", "r",
         "t", "m", "e", "n", "t">>,
     url |->
       <<"#">>,
     image |->
       <<"U+1F327", "U+FE0F">> ]
  >>

-----------------------------------------------------------------------------
(* Record normalizer for prices (app.py:171-203).                          *)

StrUnknown == <<"U", "n", "k", "n", "o", "w", "n">>
StrZero == <<"0">>

\* Variant: a record goes ahead of the records of the same price.
InsertByPrice_ahead_of_equals(x, t) ==
  LET k == Cardinality({i \in 1..Len(t) : t[i].price > x.price})
  IN  SubSeq(t, 1, k) \o <<x>> \o SubSeq(t, k + 1, Len(t))

\* list.sort(key=price, reverse=True): stable, equal prices keep their order.
InsertByPrice(x, t) ==
  LET k == Cardinality({i \in 1..Len(t) : t[i].price >= x.price})
  IN  SubSeq(t, 1, k) \o <<x>> \o SubSeq(t, k + 1, Len(t))

RECURSIVE SortByPriceDesc(_)
SortByPriceDesc(s) ==
  IF s = <<>> THEN <<>>
  ELSE InsertByPrice(s[Len(s)], SortByPriceDesc(SubSeq(s, 1, Len(s) - 1)))

\* Variant: a price of zero is accepted.
process_price_record_accepting_zero(record) ==
  LET name      == Get(record, "Commodity", StrUnknown)
      modal     == Get(record, "Modal_Price", None)
      minp      == Get(record, "Min_Price", None)
      price_str == IF Truthy(modal) THEN modal
                   ELSE IF Truthy(minp) THEN minp ELSE StrZero
      stripped  == Strip(price_str)
      price     == IF stripped = <<>> THEN [ok |-> TRUE, v |-> 0]
                   ELSE Float(stripped)
  IN  IF ~price.ok THEN <<>>
      ELSE IF name = StrUnknown \/ ~(price.v >= 0) THEN <<>>
      ELSE IF name = None THEN <<>>
      ELSE IF ~(Len(name) > 2) THEN <<>>
      ELSE << [name     |-> Strip(name),
               price    |-> price.v,
               state    |-> Get(record, "State", <<>>),
               district |-> Get(record, "District", <<>>),
               market   |-> Get(record, "Market", <<>>),
               date     |-> Get(record, "Arrival_Date", <<>>)] >>

\* One pass of the loop body of process_price_data: the records appended
\* for one raw record (none when it is filtered out or skipped).
process_price_record(record) ==
  LET name      == Get(record, "Commodity", StrUnknown)
      modal     == Get(record, "Modal_Price", None)
      minp      == Get(record, "Min_Price", None)
      price_str == IF Truthy(modal) THEN modal
                   ELSE IF Truthy(minp) THEN minp ELSE StrZero
      stripped  == Strip(price_str)
      price     == IF stripped = <<>> THEN [ok |-> TRUE, v |-> 0]
                   ELSE Float(stripped)
  IN  IF ~price.ok THEN <<>>                          \* ValueError: skipped
      ELSE IF name = StrUnknown \/ ~(price.v > 0) THEN <<>>
      ELSE IF name = None THEN <<>>                   \* len(None): TypeError
      ELSE IF ~(Len(name) > 2) THEN <<>>
      ELSE << [name     |-> Strip(name),
               price    |-> price.v,
               state    |-> Get(record, "State", <<>>),
               district |-> Get(record, "District", <<>>),
               market   |-> Get(record, "Market", <<>>),
               date     |-> Get(record, "Arrival_Date", <<>>)] >>

RECURSIVE process_price_records(_)
process_price_records(records) ==
  IF records = <<>> THEN <<>>
  ELSE process_price_record(Head(records))
         \o process_price_records(Tail(records))

process_price_data(raw_data) ==
  IF DOMAIN raw_data = {} \/ "records" \notin DOMAIN raw_data THEN <<>>
  ELSE SortByPriceDesc(process_price_records(raw_data.records))

-----------------------------------------------------------------------------
(* Filter (app.py:417-436).                                                *)

\* Variant: the commodity filter matches by substring.
apply_filters_to_data_substring(data, state_filter, district_filter, commodity_filter) ==
  IF data = <<>> THEN <<>>
  ELSE
    LET state_lower == Lower(state_filter)
        district_lower == Lower(district_filter)
        commodity_lower == Lower(commodity_filter)
        ByState(item) == Lower(Get(item, "state", <<>>)) = state_lower
        ByDistrict(item) == Lower(Get(item, "district", <<>>)) = district_lower
        ByName(item) == Contains(Lower(Get(item, "name", <<>>)), commodity_lower)
        f1 == IF state_filter # <<>> THEN SelectSeq(data, ByState) ELSE data
        f2 == IF district_filter # <<>> THEN SelectSeq(f1, ByDistrict) ELSE f1
        f3 == IF commodity_filter # <<>> THEN SelectSeq(f2, ByName) ELSE f2
    IN  f3

\* Variant: the commodity filter is applied to the unfiltered input.
apply_filters_to_data_restarting(data, state_filter, district_filter, commodity_filter) ==
  IF data = <<>> THEN <<>>
  ELSE
    LET state_lower == Lower(state_filter)
        district_lower == Lower(district_filter)
        commodity_lower == Lower(commodity_filter)
        ByState(item) == Lower(Get(item, "state", <<>>)) = state_lower
        ByDistrict(item) == Lower(Get(item, "district", <<>>)) = district_lower
        ByName(item) == Lower(Get(item, "name", <<>>)) = commodity_lower
        f1 == IF state_filter # <<>> THEN SelectSeq(data, ByState) ELSE data
        f2 == IF district_filter # <<>> THEN SelectSeq(f1, ByDistrict) ELSE f1
        f3 == IF commodity_filter # <<>> THEN SelectSeq(data, ByName) ELSE f2
    IN  f3

apply_filters_to_data(data, state_filter, district_filter, commodity_filter) ==
  IF data = <<>> THEN <<>>
  ELSE
    LET state_lower == Lower(state_filter)
        district_lower == Lower(district_filter)
        commodity_lower == Lower(commodity_filter)
        ByState(item) == Lower(Get(item, "state", <<>>)) = state_lower
        ByDistrict(item) == Lower(Get(item, "district", <<>>)) = district_lower
        ByName(item) == Lower(Get(item, "name", <<>>)) = commodity_lower
        f1 == IF state_filter # <<>> THEN SelectSeq(data, ByState) ELSE data
        f2 == IF district_filter # <<>> THEN SelectSeq(f1, ByDistrict) ELSE f1
        f3 == IF commodity_filter # <<>> THEN SelectSeq(f2, ByName) ELSE f2
    IN  f3

-----------------------------------------------------------------------------
(* The upstream price registry as the fetch code sees it.                  *)
(*                                                                         *)
(* One upstream call ends in one outcome: requests.get raises (connection  *)
(* error, timeout), or a response arrives with a status code and a body    *)
(* that is a JSON object (json = TRUE, data = the object) or is not JSON.  *)

Raises == [kind |-> "exception", status |-> 0, json |-> FALSE, data |-> <<>>]
Responds(status, data) ==
  [kind |-> "response", status |-> status, json |-> TRUE, data |-> data]
Garbage(status) ==
  [kind |-> "response", status |-> status, json |-> FALSE, data |-> <<>>]

\* response.raise_for_status() raises
IsHttpError(status) == status >= 400 /\ status < 600

StrError == <<"e", "r", "r", "o", "r">>

major_states ==
  << <<"K", "a", "r", "n", "a", "t", "a", "k", "a">>,
     <<"P", "u", "n", "j", "a", "b">>,
     <<"M", "a", "h", "a", "r", "a", "s", "h", "t", "r", "a">>,
     <<"T", "a", "m", "i", "l", " ", "N", "a", "d", "u">>,
     <<"G", "u", "j", "a", "r", "a", "t">>,
     <<"R", "a", "j", "a", "s", "t", "h", "a", "n">>,
     <<"U", "t", "t", "a", "r", " ", "P", "r", "a", "d", "e", "s", "h">>,
     <<"M", "a", "d", "h", "y", "a", " ", "P", "r", "a", "d", "e", "s", "h">> >>

\* The params of one requests.get: the record cap and the forwarded filters.
ApiCall(limit, filters) == [limit |-> limit, filters |-> filters]

NoFilters == [k \in {} |-> <<>>]

-----------------------------------------------------------------------------
(* Diverse-fetch strategy (app.py:62-118).                                 *)
(* env.partitions[i] is the outcome of the call scoped to major_states[i], *)
(* env.single the outcome of the unscoped call.                            *)

\* The records one partition contributes to all_records.
partition_records(outcome) ==
  IF outcome.kind = "exception" THEN <<>>
  ELSE IF outcome.status # HttpOk THEN <<>>
  ELSE IF ~outcome.json THEN <<>>                  \* response.json() raises
  ELSE IF "records" \in DOMAIN outcome.data /\ outcome.data.records # <<>>
         THEN outcome.data.records
  ELSE <<>>

RECURSIVE collect_partitions(_, _)
collect_partitions(outcomes, i) ==
  IF i > Len(outcomes) THEN <<>>
  ELSE partition_records(outcomes[i]) \o collect_partitions(outcomes, i + 1)

\* Variant: no floor of 5 records per partition.
records_per_state_unfloored(limit) == limit \div Len(major_states)

records_per_state(limit) == Max(MinPerState, limit \div Len(major_states))

\* Why a call that returns nothing usable raises: requests.get itself
\* raises, raise_for_status() does, or response.json() does.
call_error(outcome) ==
  IF outcome.kind = "exception" THEN "transport"
  ELSE IF IsHttpError(outcome.status) THEN "http_status"
  ELSE IF ~outcome.json THEN "invalid_json"
  ELSE "none"

Raised(error, calls) ==
  [raised |-> TRUE, error |-> error, data |-> <<>>, calls |-> calls]
Returned(data, calls) ==
  [raised |-> FALSE, error |-> "none", data |-> data, calls |-> calls]

\* Variant: the combined records are not cut to the limit.
\* Variant: the unscoped call is issued after every run of the partitions.
fetch_diverse_data_always_unscoped(limit, env) ==
  LET all_records == collect_partitions(env.partitions, 1)
      state_calls ==
        [i \in 1..Len(major_states) |->
           ApiCall(records_per_state(limit), [State |-> major_states[i]])]
      last_call == ApiCall(limit, NoFilters)
  IN  IF all_records # <<>>
        THEN Returned([records |-> Take(all_records, limit)],
                      Append(state_calls, last_call))
      ELSE IF call_error(env.single) # "none"
        THEN Raised(call_error(env.single), Append(state_calls, last_call))
      ELSE Returned(env.single.data, Append(state_calls, last_call))

fetch_diverse_data_untruncated(limit, env) ==
  LET all_records == collect_partitions(env.partitions, 1)
      state_calls ==
        [i \in 1..Len(major_states) |->
           ApiCall(records_per_state(limit), [State |-> major_states[i]])]
      last_call == ApiCall(limit, NoFilters)
  IN  IF all_records # <<>>
        THEN Returned([records |-> all_records], state_calls)
      ELSE IF call_error(env.single) # "none"
        THEN Raised(call_error(env.single), Append(state_calls, last_call))
      ELSE Returned(env.single.data, Append(state_calls, last_call))

fetch_diverse_data(limit, env) ==
  LET all_records == collect_partitions(env.partitions, 1)
      state_calls ==
        [i \in 1..Len(major_states) |->
           ApiCall(records_per_state(limit), [State |-> major_states[i]])]
      last_call == ApiCall(limit, NoFilters)
  IN  IF all_records # <<>>
        THEN Returned([records |-> Take(all_records, limit)], state_calls)
      ELSE IF call_error(env.single) # "none"
        THEN Raised(call_error(env.single), Append(state_calls, last_call))
      ELSE Returned(env.single.data, Append(state_calls, last_call))

-----------------------------------------------------------------------------
(* Scoped fetch (app.py:120-169).                                          *)

forwarded_filters(state, district, commodity) ==
  [k \in {x \in {"Commodity", "State", "District"} :
            \/ x = "Commodity" /\ commodity # <<>>
            \/ x = "State" /\ state # <<>>
            \/ x = "District" /\ district # <<>>} |->
     IF k = "Commodity" THEN commodity
     ELSE IF k = "State" THEN state ELSE district]

fetch_from_government_api(state, district, commodity, limit, env) ==
  IF ~GOV_API_KEY
    THEN Raised("no_api_key", <<>>)
  ELSE IF state = <<>> /\ district = <<>> /\ commodity = <<>>
    THEN fetch_diverse_data(limit, env)
  ELSE
    LET api_limit == Max(1, Min(limit, MaxApiLimit))
        calls == << ApiCall(api_limit,
                            forwarded_filters(state, district, commodity)) >>
        out == env.single
    IN  IF call_error(out) # "none" THEN Raised(call_error(out), calls)
        ELSE IF Get(out.data, "status", None) = StrError
          THEN Raised("api_error", calls)
        ELSE Returned(out.data, calls)

-----------------------------------------------------------------------------
(* Query orchestrator for prices (app.py:438-529).                         *)

StrTrue == <<"t", "r", "u", "e">>

\* The request arguments as the handler reads them (app.py:443-446):
\* the three filters, stripped, and the force flag.
read_args(args) ==
  [state     |-> Strip(args.state),
   district  |-> Strip(args.district),
   commodity |-> Strip(args.commodity),
   force     |-> Lower(args.force) = StrTrue]

any_filter(q) == q.state # <<>> \/ q.district # <<>> \/ q.commodity # <<>>

filters_applied(q) ==
  [state |-> q.state, district |-> q.district, commodity |-> q.commodity]

\* Mutant: the force flag is not consulted.
serve_from_cache_ignoring_force(q) == is_cache_valid /\ ~any_filter(q)

\* Mutant: the cache is never consulted.
serve_from_cache_never(q) == FALSE

\* app.py:448
serve_from_cache(q) == is_cache_valid /\ ~q.force /\ ~any_filter(q)

\* Mutant: a cache hit is stamped with the current time.
cache_hit_response_restamped(q) ==
  [endpoint  |-> "mandi-prices",
   status    |-> HttpOk,
   success   |-> TRUE,
   prices    |-> apply_filters_to_data(The(price_cache.data),
                  q.state, q.district, q.commodity),
   source    |-> "cache",
   timestamp |-> now,
   filters_applied |-> filters_applied(q)]

\* app.py:450-466
cache_hit_response(q) ==
  [endpoint  |-> "mandi-prices",
   status    |-> HttpOk,
   success   |-> TRUE,
   prices    |-> apply_filters_to_data(The(price_cache.data),
                  q.state, q.district, q.commodity),
   source    |-> "cache",
   timestamp |-> The(price_cache.timestamp),
   filters_applied |-> filters_applied(q)]

\* app.py:483-496
upstream_response(q, processed_data) ==
  [endpoint  |-> "mandi-prices",
   status    |-> HttpOk,
   success   |-> TRUE,
   prices    |-> Take(processed_data, PriceLimit),
   source    |-> "government_api",
   timestamp |-> now,
   filters_applied |-> filters_applied(q)]

\* Mutant: the fallback dataset is returned without filtering.
fallback_response_unfiltered(q) ==
  [endpoint  |-> "mandi-prices",
   status    |-> HttpOk,
   success   |-> TRUE,
   prices    |-> Take(get_fallback_data, PriceLimit),
   source    |-> "fallback",
   timestamp |-> now,
   filters_applied |-> filters_applied(q)]

\* app.py:503-521
fallback_response(q) ==
  [endpoint  |-> "mandi-prices",
   status    |-> HttpOk,
   success   |-> TRUE,
   prices    |-> Take(apply_filters_to_data(get_fallback_data,
                       q.state, q.district, q.commodity), PriceLimit),
   source    |-> "fallback",
   timestamp |-> now,
   filters_applied |-> filters_applied(q)]

\* The fetch of a request answered from cache: none was made.
NotFetched ==
  [called |-> FALSE, raised |-> FALSE, error |-> "none", data |-> <<>>]

\* Mutant: the fallback batch is written into the cache.
get_mandi_prices_caching_fallback(args, env) ==
  LET q == read_args(args)
  IN  IF serve_from_cache(q)
        THEN [response |-> cache_hit_response(q),
              fetched  |-> NotFetched,
              calls    |-> <<>>,
              put      |-> FALSE,
              cache    |-> price_cache]
      ELSE
        LET raw == fetch_from_government_api(q.state, q.district,
                     q.commodity, PriceLimit, env)
            processed_data == IF raw.raised THEN <<>>
                              ELSE process_price_data(raw.data)
            fetch == [called |-> TRUE, raised |-> raw.raised,
                      error |-> raw.error, data |-> raw.data]
        IN  IF processed_data # <<>>
              THEN [response |-> upstream_response(q, processed_data),
                    fetched  |-> fetch,
                    calls    |-> raw.calls,
                    put      |-> TRUE,
                    cache    |-> cache_response(processed_data, now)]
              ELSE [response |-> fallback_response(q),
                    fetched  |-> fetch,
                    calls    |-> raw.calls,
                    put      |-> TRUE,
                    cache    |-> cache_response(fallback_response(q).prices,
                                                now)]

\* Variant: the batch of every fetch that did not raise is written into the
\* cache, an empty one included.
get_mandi_prices_caching_empty(args, env) ==
  LET q == read_args(args)
  IN  IF serve_from_cache(q)
        THEN [response |-> cache_hit_response(q),
              fetched  |-> NotFetched,
              calls    |-> <<>>,
              put      |-> FALSE,
              cache    |-> price_cache]
      ELSE
        LET raw == fetch_from_government_api(q.state, q.district,
                     q.commodity, PriceLimit, env)
            processed_data == IF raw.raised THEN <<>>
                              ELSE process_price_data(raw.data)
            fetch == [called |-> TRUE, raised |-> raw.raised,
                      error |-> raw.error, data |-> raw.data]
        IN  IF processed_data # <<>>
              THEN [response |-> upstream_response(q, processed_data),
                    fetched  |-> fetch,
                    calls    |-> raw.calls,
                    put      |-> TRUE,
                    cache    |-> cache_response(processed_data, now)]
              ELSE [response |-> fallback_response(q),
                    fetched  |-> fetch,
                    calls    |-> raw.calls,
                    put      |-> ~raw.raised,
                    cache    |-> IF raw.raised THEN price_cache
                                 ELSE cache_response(processed_data, now)]

\* GET /api/mandi-prices with query string args, the upstream behaving as
\* env: the response returned, the fetch made, the upstream calls issued
\* and the price cache the handler leaves behind (`put` tells whether
\* cache_response was called).
get_mandi_prices(args, env) ==
  LET q == read_args(args)
  IN  IF serve_from_cache(q)
        THEN [response |-> cache_hit_response(q),
              fetched  |-> NotFetched,
              calls    |-> <<>>,
              put      |-> FALSE,
              cache    |-> price_cache]
      ELSE
        LET raw == fetch_from_government_api(q.state, q.district,
                     q.commodity, PriceLimit, env)
            processed_data == IF raw.raised THEN <<>>
                              ELSE process_price_data(raw.data)
            fetch == [called |-> TRUE, raised |-> raw.raised,
                      error |-> raw.error, data |-> raw.data]
        IN  IF processed_data # <<>>
              THEN [response |-> upstream_response(q, processed_data),
                    fetched  |-> fetch,
                    calls    |-> raw.calls,
                    put      |-> TRUE,
                    cache    |-> cache_response(processed_data, now)]
              ELSE [response |-> fallback_response(q),
                    fetched  |-> fetch,
                    calls    |-> raw.calls,
                    put      |-> FALSE,
                    cache    |-> price_cache]

-----------------------------------------------------------------------------
(* Single-commodity lookup (app.py:531-565).                               *)

HttpNotFound == 404
HttpServerError == 500

\* [price for price in data['prices']
\*    if crop_name.lower() in price['name'].lower()]
crop_prices_of(data, crop_name) ==
  LET crop_lower == Lower(crop_name)
      Named(price) == Contains(Lower(price.name), crop_lower)
  IN  SelectSeq(data.prices, Named)

\* The response of the lookup to the price-query result `data`
\* (app.py:539-557).
crop_response(data, crop_name) ==
  IF ~data.success
    THEN [endpoint |-> "crop-price", status |-> HttpServerError,
          success |-> FALSE, message |-> "Internal server error"]
  ELSE IF crop_prices_of(data, crop_name) = <<>>
    THEN [endpoint |-> "crop-price", status |-> HttpNotFound,
          success |-> FALSE, message |-> "No prices found for crop"]
  ELSE [endpoint  |-> "crop-price", status |-> HttpOk,
        success   |-> TRUE,
        crop      |-> crop_name,
        prices    |-> crop_prices_of(data, crop_name),
        timestamp |-> data.timestamp]

\* Variant: the commodity is matched by equality.
get_crop_price_exact(crop_name, called) ==
  LET data == called.response
      Named(price) == Lower(price.name) = Lower(crop_name)
      crop_prices == SelectSeq(data.prices, Named)
  IN  [response |->
         IF crop_prices = <<>>
           THEN [endpoint |-> "crop-price", status |-> HttpNotFound,
                 success |-> FALSE, message |-> "No prices found for crop"]
         ELSE [endpoint  |-> "crop-price", status |-> HttpOk,
               success   |-> TRUE,
               crop      |-> crop_name,
               prices    |-> crop_prices,
               timestamp |-> data.timestamp],
       data     |-> data,
       fetched  |-> called.fetched,
       calls    |-> called.calls,
       put      |-> called.put,
       cache    |-> called.cache]

\* GET /api/mandi-prices/<crop_name>, `called` being what the call of
\* get_mandi_prices on the same request did (app.py:536): `data` is the
\* body it returned.
get_crop_price(crop_name, called) ==
  [response |-> crop_response(called.response, crop_name),
   data     |-> called.response,
   fetched  |-> called.fetched,
   calls    |-> called.calls,
   put      |-> called.put,
   cache    |-> called.cache]

-----------------------------------------------------------------------------
(* Record normalizer for news (app.py:262-311).                            *)

StrAll == <<"a", "l", "l">>
StrPolicy == <<"p", "o", "l", "i", "c", "y">>
StrMarket == <<"m", "a", "r", "k", "e", "t">>
StrWeather == <<"w", "e", "a", "t", "h", "e", "r">>
StrTechnology == <<"t", "e", "c", "h", "n", "o", "l", "o", "g", "y">>

PolicyWords ==
  { StrPolicy, <<"s", "c", "h", "e", "m", "e">>,
    <<"g", "o", "v", "e", "r", "n", "m", "e", "n", "t">>,
    <<"m", "s", "p">>, <<"p", "m", "-", "k", "i", "s", "a", "n">> }
MarketWords ==
  { <<"p", "r", "i", "c", "e">>, StrMarket, <<"m", "a", "n", "d", "i">>,
    <<"c", "o", "m", "m", "o", "d", "i", "t", "y">> }
WeatherWords ==
  { StrWeather, <<"m", "o", "n", "s", "o", "o", "n">>,
    <<"r", "a", "i", "n", "f", "a", "l", "l">>,
    <<"d", "r", "o", "u", "g", "h", "t">>, <<"f", "l", "o", "o", "d">> }
TechnologyWords ==
  { StrTechnology, <<"d", "r", "o", "n", "e">>, <<"a", "i">>,
    <<"d", "i", "g", "i", "t", "a", "l">>, <<"s", "m", "a", "r", "t">> }

\* any(word in content_lower for word in words)
ContainsAny(content_lower, words) ==
  \E word \in words : Contains(content_lower, word)

\* app.py:279-289
category_of(title, description) ==
  LET categories ==
        { IF ContainsAny(content_lower, PolicyWords) THEN StrPolicy
          ELSE IF ContainsAny(content_lower, MarketWords) THEN StrMarket
          ELSE IF ContainsAny(content_lower, WeatherWords) THEN StrWeather
          ELSE IF ContainsAny(content_lower, TechnologyWords)
            THEN StrTechnology
          ELSE StrMarket :
          content_lower \in {Lower(title \o <<" ">> \o description)} }
  IN  CHOOSE category \in categories : TRUE

\* datetime.now().strftime('%Y-%m-%d'): the day on which the process runs
\* (the clock of the model stays within that day).
Today == <<"2", "0", "2", "6", "-", "1", "1", "-", "0", "5">>

StrEllipsis == <<".", ".", ".">>
StrNewspaper == <<"U+1F4F0">>
EmptyDict == <<>>

\* list.sort(key=date, reverse=True): stable, equal dates keep their order.
InsertByDate(x, t) ==
  LET k == Cardinality({i \in 1..Len(t) : ~StrLess(t[i].date, x.date)})
  IN  SubSeq(t, 1, k) \o <<x>> \o SubSeq(t, k + 1, Len(t))

RECURSIVE SortByDateDesc(_)
SortByDateDesc(s) ==
  IF s = <<>> THEN <<>>
  ELSE InsertByDate(s[Len(s)], SortByDateDesc(SubSeq(s, 1, Len(s) - 1)))

\* Variant: the ids start at 2.
process_news_article_ids_from_two(article, processed_news) ==
  LET raw_title       == Get(article, "title", <<>>)
      raw_description == Get(article, "description", <<>>)
  IN  IF raw_title = None \/ raw_description = None
        THEN [raised |-> TRUE, news |-> processed_news]
      ELSE
        LET title        == Strip(raw_title)
            description  == Strip(raw_description)
            url          == Get(article, "url", <<>>)
            published_at == Get(article, "publishedAt", <<>>)
            source       == Get(Get(article, "source", EmptyDict),
                                "name", StrUnknown)
            category     == category_of(title, description)
        IN  IF title # <<>> /\ Len(title) > 10
               /\ description # <<>> /\ Len(description) > 20
              THEN [raised |-> FALSE,
                    news |-> Append(processed_news,
                      [id       |-> Len(processed_news) + 2,
                       title    |-> title,
                       excerpt  |-> IF Len(description) > ExcerptLen
                                      THEN Take(description, ExcerptLen)
                                             \o StrEllipsis
                                    ELSE description,
                       content  |-> description,
                       category |-> category,
                       date     |-> IF Truthy(published_at)
                                      THEN Take(published_at, 10)
                                    ELSE Today,
                       source   |-> source,
                       url      |-> url,
                       image    |-> StrNewspaper])]
            ELSE [raised |-> FALSE, news |-> processed_news]

\* One pass of the loop body of process_news_data, processed_news being the
\* list built so far: the list after the pass, or the exception that leaves
\* the loop (None.strip() is an AttributeError, which the except clause of
\* the loop body does not catch).
process_news_article(article, processed_news) ==
  LET raw_title       == Get(article, "title", <<>>)
      raw_description == Get(article, "description", <<>>)
  IN  IF raw_title = None \/ raw_description = None
        THEN [raised |-> TRUE, news |-> processed_news]
      ELSE
        LET title        == Strip(raw_title)
            description  == Strip(raw_description)
            url          == Get(article, "url", <<>>)
            published_at == Get(article, "publishedAt", <<>>)
            source       == Get(Get(article, "source", EmptyDict),
                                "name", StrUnknown)
            category     == category_of(title, description)
        IN  IF title # <<>> /\ Len(title) > 10
               /\ description # <<>> /\ Len(description) > 20
              THEN [raised |-> FALSE,
                    news |-> Append(processed_news,
                      [id       |-> Len(processed_news) + 1,
                       title    |-> title,
                       excerpt  |-> IF Len(description) > ExcerptLen
                                      THEN Take(description, ExcerptLen)
                                             \o StrEllipsis
                                    ELSE description,
                       content  |-> description,
                       category |-> category,
                       date     |-> IF Truthy(published_at)
                                      THEN Take(published_at, 10)
                                    ELSE Today,
                       source   |-> source,
                       url      |-> url,
                       image    |-> StrNewspaper])]
            ELSE [raised |-> FALSE, news |-> processed_news]

\* The rest of the loop after a pass.
RECURSIVE process_news_articles(_, _)
after_pass(pass, articles) ==
  IF pass.raised THEN pass ELSE process_news_articles(articles, pass.news)

process_news_articles(articles, processed_news) ==
  IF articles = <<>> THEN [raised |-> FALSE, news |-> processed_news]
  ELSE after_pass(process_news_article(Head(articles), processed_news),
                  Tail(articles))

\* The sort that ends process_news_data, unless the loop was left by an
\* exception.
after_loop(loop) ==
  IF loop.raised THEN [raised |-> TRUE, news |-> <<>>]
  ELSE [raised |-> FALSE, news |-> SortByDateDesc(loop.news)]

\* process_news_data: the batch returned, or `raised` when an exception
\* leaves the function.
process_news_data(raw_data) ==
  IF DOMAIN raw_data = {} \/ "articles" \notin DOMAIN raw_data
    THEN [raised |-> FALSE, news |-> <<>>]
  ELSE after_loop(process_news_articles(raw_data.articles, <<>>))

-----------------------------------------------------------------------------
(* News fetch (app.py:218-260).                                            *)

\* The keys of the `queries` table.
QueryCategories ==
  {StrAll, StrPolicy, StrMarket, StrWeather, StrTechnology}

\* The params of the one requests.get: the query, named by the key of the
\* `queries` table it was taken from, and the page size.
NewsCall(category, limit) ==
  [q        |-> IF category \in QueryCategories THEN category ELSE StrAll,
   pageSize |-> Min(limit, MaxPageSize)]

\* `outcome` is the outcome of the call to NewsAPI.
fetch_agricultural_news(category, limit, outcome) ==
  IF ~NEWS_API_KEY
    THEN Raised("no_api_key", <<>>)
  ELSE
    LET calls == << NewsCall(category, limit) >>
    IN  IF call_error(outcome) # "none"
          THEN Raised(call_error(outcome), calls)
        ELSE IF Get(outcome.data, "status", None) = StrError
          THEN Raised("api_error", calls)
        ELSE Returned(outcome.data, calls)

-----------------------------------------------------------------------------
(* Query orchestrator for news (app.py:567-653).                           *)

\* The request arguments as the handler reads them (app.py:572-574); the
\* limit is [ok |-> FALSE] when int() raises.
read_news_args(args) ==
  [category |-> Strip(Get(args, "category", StrAll)),
   limit    |-> IF "limit" \in DOMAIN args THEN int(args.limit)
                ELSE [ok |-> TRUE, v |-> NewsLimit],
   force    |-> Lower(Get(args, "force", <<>>)) = StrTrue]

news_filters_applied(q) == [category |-> q.category, limit |-> q.limit.v]

\* Variant: the cache is consulted for every category.
serve_news_from_cache_any_category(q) ==
  is_news_cache_valid /\ ~q.force

\* app.py:577
serve_news_from_cache(q) ==
  is_news_cache_valid /\ ~q.force /\ q.category = StrAll

\* [article for article in data if article.get('category') == category]
filter_by_category(data, category_filter) ==
  LET ByCategory(article) == Get(article, "category", None) = category_filter
  IN  IF category_filter # StrAll THEN SelectSeq(data, ByCategory) ELSE data

\* app.py:579-597
news_cache_hit_response(q) ==
  [endpoint  |-> "news",
   status    |-> HttpOk,
   success   |-> TRUE,
   news      |-> Slice(filter_by_category(The(news_cache.data), q.category),
                       q.limit.v),
   source    |-> "cache",
   timestamp |-> The(news_cache.timestamp),
   filters_applied |-> news_filters_applied(q)]

\* app.py:608-618
newsapi_response(q, processed_data) ==
  [endpoint  |-> "news",
   status    |-> HttpOk,
   success   |-> TRUE,
   news      |-> Slice(processed_data, q.limit.v),
   source    |-> "newsapi",
   timestamp |-> now,
   filters_applied |-> news_filters_applied(q)]

\* app.py:627-645
news_fallback_response(q) ==
  [endpoint  |-> "news",
   status    |-> HttpOk,
   success   |-> TRUE,
   news      |-> Slice(filter_by_category(get_fallback_news, q.category),
                       q.limit.v),
   source    |-> "fallback",
   timestamp |-> now,
   filters_applied |-> news_filters_applied(q)]

\* app.py:647-653
internal_error_response(endpoint) ==
  [endpoint |-> endpoint,
   status   |-> 500,
   success  |-> FALSE,
   message  |-> "Internal server error"]

\* app.py:602-645: the handler once the fetch has returned or raised `raw`
\* and process_news_data has returned or raised `processed`.
news_reply(q, raw, processed) ==
  IF ~processed.raised /\ processed.news # <<>>
    THEN [response |-> newsapi_response(q, processed.news),
          fetched  |-> [called |-> TRUE, raised |-> raw.raised,
                        error |-> raw.error, data |-> raw.data],
          calls    |-> raw.calls,
          put      |-> TRUE,
          cache    |-> cache_news_response(processed.news, now)]
  ELSE [response |-> news_fallback_response(q),
        fetched  |-> [called |-> TRUE, raised |-> raw.raised,
                      error |-> raw.error, data |-> raw.data],
        calls    |-> raw.calls,
        put      |-> FALSE,
        cache    |-> news_cache]

\* app.py:600-602: the handler once the fetch has returned or raised `raw`.
news_fetch_path(q, raw) ==
  news_reply(q, raw, IF raw.raised THEN [raised |-> TRUE, news |-> <<>>]
                     ELSE process_news_data(raw.data))

\* GET /api/news with query string args, the call to NewsAPI ending in
\* `outcome`: the response returned, the fetch made, the upstream calls
\* issued and the news cache the handler leaves behind (`put` tells whether
\* cache_news_response was called).
get_agricultural_news(args, outcome) ==
  LET q == read_news_args(args)
  IN  IF ~q.limit.ok                               \* int() raises ValueError
        THEN [response |-> internal_error_response("news"),
              fetched  |-> NotFetched,
              calls    |-> <<>>,
              put      |-> FALSE,
              cache    |-> news_cache]
      ELSE IF serve_news_from_cache(q)
        THEN [response |-> news_cache_hit_response(q),
              fetched  |-> NotFetched,
              calls    |-> <<>>,
              put      |-> FALSE,
              cache    |-> news_cache]
      ELSE news_fetch_path(q, fetch_agricultural_news(q.category, q.limit.v,
                                                      outcome))

-----------------------------------------------------------------------------
(* Diagnostics (app.py:655-686).                                           *)

\* GET /api/stats: the response; data_count is present only when the price
\* cache holds data.
get_api_stats ==
  LET cache_info ==
        [has_cached_data |-> price_cache.data # Nil,
         cache_timestamp |-> price_cache.timestamp,
         cache_valid     |-> is_cache_valid,
         cache_duration  |-> PriceCacheDuration]
      counted ==
        [k \in DOMAIN cache_info \cup {"data_count"} |->
           IF k = "data_count" THEN Len(The(price_cache.data))
           ELSE cache_info[k]]
  IN  [endpoint   |-> "stats",
       status     |-> HttpOk,
       success    |-> TRUE,
       cache_info |-> IF cache_info.has_cached_data THEN counted
                      ELSE cache_info,
       timestamp  |-> now]

-----------------------------------------------------------------------------
(* Inputs: the requests callers send and the ways the upstream behaves.    *)

Empty == <<>>

RawWheat ==
  [Commodity |-> <<"W", "h", "e", "a", "t">>,
   Modal_Price |-> <<"2", "1", "5", "0">>,
   State |-> <<"P", "u", "n", "j", "a", "b">>,
   District |-> <<"A", "m", "r", "i", "t", "s", "a", "r">>,
   Market |-> <<"A", "m", "r", "i", "t", "s", "a", "r">>,
   Arrival_Date |-> <<"0", "5", "/", "1", "1", "/", "2", "0", "2", "6">>]
RawRice ==
  [Commodity |-> <<"R", "i", "c", "e">>,
   Modal_Price |-> <<"1", "8", "8", "0">>,
   State |-> <<"K", "a", "r", "n", "a", "t", "a", "k", "a">>,
   District |-> <<"M", "y", "s", "o", "r", "e">>,
   Market |-> <<"M", "y", "s", "o", "r", "e">>,
   Arrival_Date |-> <<"0", "5", "/", "1", "1", "/", "2", "0", "2", "6">>]
RawBadPrice ==
  [Commodity |-> <<"M", "a", "i", "z", "e">>,
   Modal_Price |-> <<"a", "b", "c">>,
   State |-> <<"P", "u", "n", "j", "a", "b">>,
   District |-> <<"J", "a", "l", "a", "n", "d", "h", "a", "r">>,
   Market |-> <<"J", "a", "l", "a", "n", "d", "h", "a", "r">>,
   Arrival_Date |-> <<"0", "5", "/", "1", "1", "/", "2", "0", "2", "6">>]

RawRecords == {RawWheat, RawRice, RawBadPrice}

\* The record lists an upstream body may carry.
RecordLists ==
  UNION {{l \in [1..n -> RawRecords] :
            \A i, j \in 1..n : i # j => l[i] # l[j]} : n \in 0..MaxRecords}

ErrorBody == [status |-> StrError, message |-> <<"K", "e", "y", " ", "n", "o", "t", " ", "a", "u", "t", "h", "o", "r", "i", "s", "e", "d">>]

\* Outcomes of the scoped call of a filtered request, and of the unscoped
\* call that ends the diverse fetch.
SingleOutcomes ==
  {Raises, Garbage(500), Garbage(HttpOk), Responds(HttpOk, ErrorBody)}
    \cup {Responds(HttpOk, [records |-> l]) : l \in RecordLists}

\* Outcomes of a partition call that contributes nothing.
FailOutcomes == <<Raises, Garbage(500), Responds(HttpOk, [records |-> <<>>])>>
FailOutcome(i) == FailOutcomes[((i - 1) % 3) + 1]

\* What partition i returns when it answers.
LiveRecords == <<RawRice, RawWheat, RawBadPrice>>
LiveOutcome(i) ==
  Responds(HttpOk, [records |-> <<LiveRecords[((i - 1) % 3) + 1]>>])

PartitionOutcomes(live) ==
  [i \in 1..Len(major_states) |->
     IF i \in live THEN LiveOutcome(i) ELSE FailOutcome(i)]

\* The upstream during an unfiltered request: the partitions in `live`
\* answer, the others fail; the unscoped call is reached only when no
\* partition answers.
DiverseEnvs ==
  {[partitions |-> PartitionOutcomes(live), single |-> Raises] :
     live \in (SUBSET (1..MaxLive)) \ {{}}}
  \cup
  {[partitions |-> PartitionOutcomes({}), single |-> out] :
     out \in SingleOutcomes}

\* The upstream during a filtered request: one scoped call.
ScopedEnvs ==
  {[partitions |-> PartitionOutcomes({}), single |-> out] :
     out \in SingleOutcomes}

Args(state, district, commodity, force) ==
  [state |-> state, district |-> district, commodity |-> commodity,
   force |-> force]

StrForce == <<"T", "r", "u", "e">>

PriceArgs ==
  { Args(Empty, Empty, Empty, Empty),
    Args(Empty, Empty, Empty, StrForce),
    Args(<<" ">>, Empty, Empty, Empty),
    Args(<<"P", "u", "n", "j", "a", "b">>, Empty, Empty, Empty),
    Args(<<"p", "u", "n", "j", "a", "b", " ">>, Empty, <<"W", "H", "E", "A", "T">>, StrForce),
    Args(Empty, <<"M", "y", "s", "o", "r", "e">>, Empty, Empty),
    Args(<<"K", "e", "r", "a", "l", "a">>, Empty, Empty, Empty) }

\* The instants at which requests arrive: at start-up, and one second
\* before and exactly at the end of the price cache's validity window.
PriceInstants == {0, PriceCacheDuration - 1, PriceCacheDuration}

\* A policy article whose title has to be stripped; the older of the two
\* valid articles.
ArticlePolicy ==
  [title |-> <<" ", "M", "S", "P", " ", "r", "a", "i", "s", "e", "d", " ", "a", "g", "a", "i", "n">>,
   description |-> <<"C", "a", "b", "i", "n", "e", "t", " ", "c", "l", "e", "a", "r", "s", " ", "t", "h", "e", " ", "n", "e", "w", " ", "r", "a", "t", "e", "s">>,
   url |-> <<"h", "t", "t", "p", "s", ":", "/", "/", "n", ".", "i", "n", "/", "1">>,
   publishedAt |-> <<"2", "0", "2", "6", "-", "1", "1", "-", "0", "3", "T", "0", "9", ":", "3", "0", ":", "0", "0", "Z">>,
   source |-> [name |-> <<"T", "h", "e", " ", "H", "i", "n", "d", "u">>]]

\* A technology article with neither publishedAt nor source.
ArticleUndated ==
  [title |-> <<"D", "r", "o", "n", "e", " ", "s", "u", "r", "v", "e", "y", " ", "b", "e", "g", "i", "n", "s">>,
   description |-> <<"D", "i", "g", "i", "t", "a", "l", " ", "c", "r", "o", "p", " ", "s", "u", "r", "v", "e", "y", " ", "b", "y", " ", "d", "r", "o", "n", "e">>,
   url |-> <<"h", "t", "t", "p", "s", ":", "/", "/", "n", ".", "i", "n", "/", "3">>]

\* An article whose description is JSON null.
ArticleNullDescription ==
  [title |-> <<"O", "n", "i", "o", "n", " ", "r", "a", "t", "e", "s", " ", "c", "l", "i", "m", "b">>,
   description |-> None,
   url |-> <<"h", "t", "t", "p", "s", ":", "/", "/", "n", ".", "i", "n", "/", "4">>,
   publishedAt |-> <<"2", "0", "2", "6", "-", "1", "1", "-", "0", "5", "T", "0", "8", ":", "0", "0", ":", "0", "0", "Z">>,
   source |-> [name |-> <<"M", "i", "n", "t">>]]

\* An article whose title is too short to be accepted.
ArticleShortTitle ==
  [title |-> <<"O", "n", "i", "o", "n", " ", "n", "e", "w", "s">>,
   description |-> <<"O", "n", "i", "o", "n", " ", "r", "a", "t", "e", "s", " ", "r", "i", "s", "e", " ", "i", "n", " ", "N", "a", "s", "h", "i", "k", " ", "t", "o", "d", "a", "y">>,
   url |-> <<"h", "t", "t", "p", "s", ":", "/", "/", "n", ".", "i", "n", "/", "5">>,
   publishedAt |-> <<"2", "0", "2", "6", "-", "1", "1", "-", "0", "5", "T", "0", "7", ":", "0", "0", ":", "0", "0", "Z">>,
   source |-> [name |-> <<"M", "i", "n", "t">>]]

\* The feed of NewsAPI, oldest article first.
NewsFeed ==
  <<ArticlePolicy, ArticleUndated, ArticleNullDescription, ArticleShortTitle>>

\* The articles of the feed at the positions in `picked`, in feed order.
RECURSIVE PickFrom(_, _, _)
PickFrom(feed, picked, i) ==
  IF i > Len(feed) THEN <<>>
  ELSE (IF i \in picked THEN <<feed[i]>> ELSE <<>>)
         \o PickFrom(feed, picked, i + 1)

\* The article lists a NewsAPI body may carry: at most MaxRecords articles
\* of the feed.
ArticleLists ==
  {PickFrom(NewsFeed, picked, 1) :
     picked \in {s \in SUBSET (1..Len(NewsFeed)) : Cardinality(s) <= MaxRecords}}

StrOk == <<"o", "k">>

NewsErrorBody ==
  [status |-> StrError,
   message |-> <<"a", "p", "i", "K", "e", "y", "I", "n", "v", "a", "l", "i", "d">>]

\* Outcomes of the call to NewsAPI.
NewsOutcomes ==
  {Raises, Garbage(500), Garbage(HttpOk), Responds(HttpOk, NewsErrorBody)}
    \cup {Responds(HttpOk, [status |-> StrOk, articles |-> l]) :
            l \in ArticleLists}

NewsArgs ==
  { EmptyDict,
    [force |-> StrForce],
    [category |-> StrPolicy],
    [category |-> <<" ", "a", "l", "l", " ">>, limit |-> <<"1">>],
    [category |-> StrTechnology],
    [limit |-> <<"a", "b", "c">>] }

\* The instants at which news requests arrive: at start-up, and one second
\* before and exactly at the end of the news cache's validity window.
NewsInstants == {0, NewsCacheDuration - 1, NewsCacheDuration}

\* The requests and upstream behaviours of the runs in which both
\* endpoints are used, and the instants of those runs: the ends of the two
\* validity windows, and the instant one price window before the end of
\* the news window.
FewPriceArgs ==
  {Args(Empty, Empty, Empty, Empty), Args(Empty, Empty, Empty, StrForce)}
FewPriceEnvs ==
  {[partitions |-> PartitionOutcomes(live), single |-> Raises] :
     live \in {{}, {1}}}
FewNewsArgs == {EmptyDict, [force |-> StrForce]}
FewNewsOutcomes ==
  {Raises, Responds(HttpOk, [status |-> StrOk, articles |-> <<ArticlePolicy>>])}
BothInstants ==
  PriceInstants \cup NewsInstants
    \cup {NewsCacheDuration - PriceCacheDuration}

\* The requests and upstream behaviours of the runs that look at the size
\* of a response: a body with one record more than the handler asks for,
\* sent in answer to the scoped call or to the unscoped call, and a diverse
\* fetch in which every partition answers with records_per_state records.
BigBody == [records |-> [i \in 1..(PriceLimit + 1) |-> RawWheat]]
FullPartition ==
  Responds(HttpOk, [records |-> [i \in 1..records_per_state(PriceLimit) |->
                                   RawRice]])
CapPriceEnvs ==
  {[partitions |-> PartitionOutcomes({}), single |-> out] :
     out \in {Raises, Responds(HttpOk, BigBody),
              Responds(HttpOk, [records |-> <<RawRice, RawWheat>>])}}
  \cup
  {[partitions |-> [i \in 1..Len(major_states) |-> FullPartition],
    single |-> Raises]}
CapPriceArgs ==
  { Args(Empty, Empty, Empty, Empty),
    Args(Empty, Empty, Empty, StrForce),
    Args(<<"P", "u", "n", "j", "a", "b">>, Empty, Empty, Empty),
    Args(Empty, Empty, <<"r", "i", "c", "e">>, Empty) }

\* The requests and upstream behaviours of the runs in which requests are
\* handled concurrently: unfiltered requests, forced or not, and a diverse
\* fetch in which no partition, the first or the second answers.
ConcPriceArgs ==
  {Args(Empty, Empty, Empty, Empty), Args(Empty, Empty, Empty, StrForce)}
ConcPriceEnvs ==
  {[partitions |-> PartitionOutcomes(live), single |-> Raises] :
     live \in {{}, {1}, {2}}}

\* Batches and FilterSpecs given to the filter: records that share a state,
\* a district or a name, in every order and with repetitions; filters in
\* another letter case than the records, and one that is a proper substring
\* of a name.
Item(name, price, state, district) ==
  [name |-> name, price |-> price, state |-> state, district |-> district,
   market |-> district,
   date |-> <<"0", "5", "/", "1", "1", "/", "2", "0", "2", "6">>]
StrWheat == <<"W", "h", "e", "a", "t">>
StrRice == <<"R", "i", "c", "e">>
StrPunjab == <<"P", "u", "n", "j", "a", "b">>
StrKarnataka == <<"K", "a", "r", "n", "a", "t", "a", "k", "a">>
StrAmritsar == <<"A", "m", "r", "i", "t", "s", "a", "r">>
StrMysore == <<"M", "y", "s", "o", "r", "e">>
FilterItems ==
  { Item(StrWheat, 215000, StrPunjab, StrAmritsar),
    Item(StrRice, 188000, StrKarnataka, StrMysore),
    Item(StrRice, 300000, StrPunjab, StrAmritsar),
    Item(StrWheat, 120000, StrKarnataka, StrAmritsar) }
MaxBatch == 3
FilterBatches ==
  UNION {[1..n -> FilterItems] : n \in 0..MaxBatch}
FilterSpecs ==
  [state : {Empty, <<"p", "u", "n", "j", "a", "b">>, <<"K", "A", "R", "N", "A", "T", "A", "K", "A">>},
   district : {Empty, <<"a", "m", "r", "i", "t", "s", "a", "r">>},
   commodity : {Empty, <<"w", "h", "e", "a", "t">>, <<"R", "I", "C", "E">>, <<"R", "i", "c">>}]

\* Raw batches given to the price normalizer: names that are padded, short,
\* the sentinel, null or absent, and prices that are positive, negative,
\* zero, not numbers, empty, padded or given as Min_Price only.
RawNames ==
  { StrWheat, <<"a", "b", " ">>, <<" ", "U", "n", "k", "n", "o", "w", "n">>,
    StrUnknown, <<"a", "b">>, None }
RawPrices ==
  { <<"2", "1", "5", "0">>, <<"-", "5">>, <<"0">>, <<"a", "b", "c">>, Empty,
    <<" ", "1", "8", "8", "0", " ">> }
RawInputs ==
  {[Commodity |-> name, Modal_Price |-> price_str, State |-> StrPunjab] :
     name \in RawNames, price_str \in RawPrices}
  \cup {[Modal_Price |-> price_str, State |-> StrPunjab] :
          price_str \in RawPrices}
  \cup {[Commodity |-> StrRice, Min_Price |-> <<"9", "0", "0">>]}
MaxRaw == 2
RawBatches ==
  {[records |-> records] :
     records \in UNION {[1..n -> RawInputs] : n \in 0..MaxRaw}}

\* Raw batches given to the price normalizer to look at its order: two
\* records of the same price under different names, a cheaper record whose
\* price is padded, a record priced by Min_Price only and a record whose
\* price is not a number, in every order and with repetitions.
MaxOrdered == 3
OrderedInputs ==
  { [Commodity |-> StrWheat, Modal_Price |-> <<"2", "1", "5", "0">>],
    [Commodity |-> <<"a", "b", " ">>, Modal_Price |-> <<"2", "1", "5", "0">>],
    [Commodity |-> StrRice, Modal_Price |-> <<" ", "1", "8", "8", "0", " ">>],
    [Commodity |-> StrRice, Min_Price |-> <<"9", "0", "0">>],
    [Commodity |-> StrWheat, Modal_Price |-> <<"a", "b", "c">>] }
OrderedBatches ==
  {[records |-> records] :
     records \in UNION {[1..n -> OrderedInputs] : n \in 0..MaxOrdered}}

\* The diverse fetch on its own: three of the partitions (the first two and
\* the last) raise, answer with an error status, answer 200 with a body that
\* is not JSON, has no records or has an empty list, or answer with one to
\* MaxPartitionRecords records of their state; the other partitions fail.
MaxPartitionRecords == 2
PartitionRecord(i, k) ==
  [Commodity |-> StrWheat,
   Modal_Price |-> <<"2", "1", "5", Digits[k + 1]>>,
   State |-> major_states[i]]
PartitionAnswers(i) ==
  {Raises, Garbage(500), Responds(500, [records |-> <<PartitionRecord(i, 1)>>]),
   Garbage(HttpOk), Responds(HttpOk, ErrorBody),
   Responds(HttpOk, [records |-> <<>>])}
  \cup {Responds(HttpOk, [records |-> [k \in 1..n |-> PartitionRecord(i, k)]]) :
          n \in 1..MaxPartitionRecords}
VaryingPartitions == {1, 2, Len(major_states)}
MergeEnvs ==
  {[partitions |-> [i \in 1..Len(major_states) |->
                      IF i \in VaryingPartitions THEN answers[i]
                      ELSE FailOutcome(i)],
    single |-> Raises] :
     answers \in {a \in [VaryingPartitions ->
                           UNION {PartitionAnswers(i) : i \in VaryingPartitions}] :
                   \A i \in VaryingPartitions : a[i] \in PartitionAnswers(i)}}
MergeLimits == {1, 3, PriceLimit}

\* The lookups callers send: a name in another letter case, a part of a
\* name, a letter that two names share, and a name no record has; with no
\* query string, with force_refresh or with a state filter.
CropNames ==
  { <<"R", "I", "C", "E">>, <<"h", "e", "a">>, <<"e">>, <<"x", "y", "z">> }
CropArgs ==
  { Args(Empty, Empty, Empty, Empty),
    Args(Empty, Empty, Empty, StrForce),
    Args(StrPunjab, Empty, Empty, Empty) }
\* The upstream during a lookup: the call of a filtered request raises or
\* answers with two records; of the partitions of an unfiltered one, none
\* or the first two answer.
CropEnvs(filtered) ==
  IF filtered
    THEN {[partitions |-> PartitionOutcomes({}), single |-> out] :
            out \in {Raises, Responds(HttpOk, [records |-> <<RawWheat, RawRice>>])}}
  ELSE {[partitions |-> PartitionOutcomes(live), single |-> Raises] :
          live \in {{}, {1, 2}}}

\* The fetch on its own: no filter, a state filter, or a state and a
\* commodity filter; the limits of MergeLimits and the default limit of
\* fetch_diverse_data, and a limit that is not a multiple of the number of
\* partitions.
FetchFilters ==
  { [state |-> Empty, district |-> Empty, commodity |-> Empty],
    [state |-> StrPunjab, district |-> Empty, commodity |-> Empty],
    [state |-> StrPunjab, district |-> Empty, commodity |-> StrWheat] }
DefaultDiverseLimit == 50
FetchLimits == MergeLimits \cup {47, DefaultDiverseLimit}
FetchEnvs(filters) ==
  IF filters.state = Empty /\ filters.district = Empty
       /\ filters.commodity = Empty
    THEN MergeEnvs
  ELSE ScopedEnvs

\* Raw news batches given to the news normalizer: up to MaxArticles
\* articles in any order and with repetitions, among them an article that
\* is rejected and one whose description is null.
MaxArticles == 3
NewsBatches ==
  {[status |-> StrOk, articles |-> articles] :
     articles \in UNION {[1..n -> {NewsFeed[k] : k \in 1..Len(NewsFeed)}] :
                           n \in 0..MaxArticles}}

-----------------------------------------------------------------------------
(* The state machine.                                                      *)

NoRequest == [endpoint |-> "none"]

\* The request threads, and a thread that handles no request.
Threads == 1..MaxThreads
Idle ==
  [pc |-> "idle", args |-> Args(Empty, Empty, Empty, Empty),
   cached_data |-> Nil, timestamp |-> Nil, processed_data |-> Nil,
   fetch |-> NotFetched, calls |-> <<>>,
   put |-> Nil, data_writer |-> Nil, timestamp_writer |-> Nil]

\* The call of cache_response that thread t began at time `at`.
PutBy(t, at) == [thread |-> t, at |-> at]

\* The state after start-up, whatever the two API keys are.
Startup ==
  /\ price_cache = [data |-> Nil, timestamp |-> Nil]
  /\ news_cache = [data |-> Nil, timestamp |-> Nil]
  /\ now = 0
  /\ request = NoRequest
  /\ fetched = NotFetched
  /\ cache_scope = "none"
  /\ news_scope = Nil
  /\ response = NoRequest
  /\ upstream_calls = <<>>
  /\ threads = [t \in Threads |-> Idle]
  /\ writer = [data |-> Nil, timestamp |-> Nil]

\* Start-up with or without a data.gov.in key (the NewsAPI key is not read
\* by the price endpoints).
Init ==
  /\ Startup
  /\ GOV_API_KEY \in BOOLEAN
  /\ NEWS_API_KEY = TRUE

\* Time passes between requests.
Tick(instants) ==
  /\ \E t \in instants : t > now /\ now' = t
  /\ UNCHANGED <<price_cache, news_cache, GOV_API_KEY, NEWS_API_KEY,
                 request, fetched, cache_scope, news_scope, response,
                 upstream_calls, threads, writer>>

\* The ways the upstream may behave during the request `args`: nothing is
\* asked of it on a cache hit or without a key, one scoped call is made for
\* a filtered request, the diverse fetch runs for an unfiltered one.
EnvsFor(args) ==
  LET q == read_args(args)
  IN  IF serve_from_cache(q) \/ ~GOV_API_KEY
        THEN {[partitions |-> PartitionOutcomes({}), single |-> Raises]}
      ELSE IF any_filter(q) THEN ScopedEnvs
      ELSE DiverseEnvs

\* The ways NewsAPI may behave during the request `args`: nothing is asked
\* of it when the limit is unreadable, on a cache hit or without a key.
NewsOutcomesFor(args) ==
  LET q == read_news_args(args)
  IN  IF ~q.limit.ok \/ serve_news_from_cache(q) \/ ~NEWS_API_KEY
        THEN {Raises}
      ELSE NewsOutcomes

\* Variant: a price put also stamps the news cache entry.
PriceRequest_stamping_news(args, env) ==
  \E done \in {get_mandi_prices(args, env)} :
    /\ request' = [endpoint |-> "mandi-prices", args |-> args]
    /\ response' = done.response
    /\ fetched' = done.fetched
    /\ upstream_calls' = done.calls
    /\ price_cache' = done.cache
    /\ cache_scope' = IF ~done.put THEN cache_scope
                      ELSE IF any_filter(read_args(args)) THEN "scoped"
                      ELSE "unscoped"
    /\ writer' = IF ~done.put THEN writer
                 ELSE [data |-> Some(PutBy(1, now)),
                       timestamp |-> Some(PutBy(1, now))]
    /\ news_cache' = IF ~done.put THEN news_cache
                     ELSE [news_cache EXCEPT !.timestamp = Some(now)]
    /\ UNCHANGED <<news_scope, now, GOV_API_KEY, NEWS_API_KEY, threads>>

\* GET /api/mandi-prices with query string args is handled, the upstream
\* behaving as env.
PriceRequest(args, env) ==
  \E done \in {get_mandi_prices(args, env)} :
    /\ request' = [endpoint |-> "mandi-prices", args |-> args]
    /\ response' = done.response
    /\ fetched' = done.fetched
    /\ upstream_calls' = done.calls
    /\ price_cache' = done.cache
    /\ cache_scope' = IF ~done.put THEN cache_scope
                      ELSE IF any_filter(read_args(args)) THEN "scoped"
                      ELSE "unscoped"
    /\ writer' = IF ~done.put THEN writer
                 ELSE [data |-> Some(PutBy(1, now)),
                       timestamp |-> Some(PutBy(1, now))]
    /\ UNCHANGED <<news_cache, news_scope, now, GOV_API_KEY, NEWS_API_KEY,
                   threads>>

\* GET /api/news with query string args is handled, the call to NewsAPI
\* ending in `outcome`.
NewsRequest(args, outcome) ==
  \E done \in {get_agricultural_news(args, outcome)} :
    /\ request' = [endpoint |-> "news", args |-> args]
    /\ response' = done.response
    /\ fetched' = done.fetched
    /\ upstream_calls' = done.calls
    /\ news_cache' = done.cache
    /\ news_scope' = IF ~done.put THEN news_scope
                     ELSE Some(read_news_args(args).category)
    /\ UNCHANGED <<price_cache, cache_scope, now, GOV_API_KEY, NEWS_API_KEY,
                   threads, writer>>

\* A caller sends GET /api/mandi-prices.
GetMandiPrices ==
  \E args \in PriceArgs : \E env \in EnvsFor(args) : PriceRequest(args, env)

TickPrice == Tick(PriceInstants)

Next == TickPrice \/ GetMandiPrices

Spec == Init /\ [][Next]_vars

\* A caller sends GET /api/news.
GetAgriculturalNews ==
  \E args \in NewsArgs : \E outcome \in NewsOutcomesFor(args) :
    NewsRequest(args, outcome)

TickNews == Tick(NewsInstants)

\* Start-up with or without a NewsAPI key (the data.gov.in key is not read
\* by the news endpoint).
InitNews ==
  /\ Startup
  /\ GOV_API_KEY = TRUE
  /\ NEWS_API_KEY \in BOOLEAN

NextNews == TickNews \/ GetAgriculturalNews

SpecNews == InitNews /\ [][NextNews]_vars

\* Both endpoints in one run, with both keys set.
GetMandiPricesFew ==
  \E args \in FewPriceArgs : \E env \in EnvsFor(args) \cap FewPriceEnvs :
    PriceRequest(args, env)

GetAgriculturalNewsFew ==
  \E args \in FewNewsArgs :
  \E outcome \in NewsOutcomesFor(args) \cap FewNewsOutcomes :
    NewsRequest(args, outcome)

TickBoth == Tick(BothInstants)

InitBoth ==
  /\ Startup
  /\ GOV_API_KEY = TRUE
  /\ NEWS_API_KEY = TRUE

NextBoth == TickBoth \/ GetMandiPricesFew \/ GetAgriculturalNewsFew

SpecBoth == InitBoth /\ [][NextBoth]_vars

\* Price requests answered by an upstream that may send more records than
\* it was asked for.
GetMandiPricesCap ==
  \E args \in CapPriceArgs :
  \E env \in (IF serve_from_cache(read_args(args))
                THEN {[partitions |-> PartitionOutcomes({}), single |-> Raises]}
              ELSE CapPriceEnvs) :
    PriceRequest(args, env)

NextCap == TickPrice \/ GetMandiPricesCap

SpecCap == InitBoth /\ [][NextCap]_vars

\* GET /api/mandi-prices/<crop_name> with query string args is handled, the
\* upstream behaving as env.
CropRequest(crop_name, args, env) ==
  \E called \in {get_mandi_prices(args, env)} :
  \E done \in {get_crop_price(crop_name, called)} :
    /\ request' = [endpoint |-> "crop-price", crop_name |-> crop_name,
                   args |-> args, data |-> done.data]
    /\ response' = done.response
    /\ fetched' = done.fetched
    /\ upstream_calls' = done.calls
    /\ price_cache' = done.cache
    /\ cache_scope' = IF ~done.put THEN cache_scope
                      ELSE IF any_filter(read_args(args)) THEN "scoped"
                      ELSE "unscoped"
    /\ writer' = IF ~done.put THEN writer
                 ELSE [data |-> Some(PutBy(1, now)),
                       timestamp |-> Some(PutBy(1, now))]
    /\ UNCHANGED <<news_cache, news_scope, now, GOV_API_KEY, NEWS_API_KEY,
                   threads>>

\* The ways the upstream may behave during the lookup `args`: nothing is
\* asked of it on a cache hit or without an API key.
CropEnvsFor(args) ==
  LET q == read_args(args)
  IN  IF serve_from_cache(q) \/ ~GOV_API_KEY
        THEN {[partitions |-> PartitionOutcomes({}), single |-> Raises]}
      ELSE CropEnvs(any_filter(q))

\* A caller sends GET /api/mandi-prices/<crop_name>.
GetCropPrice ==
  \E crop_name \in CropNames : \E args \in CropArgs :
    \E env \in CropEnvsFor(args) : CropRequest(crop_name, args, env)

NextCrop == TickPrice \/ GetCropPrice

SpecCrop == Init /\ [][NextCrop]_vars

\* GET /api/stats is handled.
StatsRequest ==
  /\ request' = [endpoint |-> "stats"]
  /\ response' = get_api_stats
  /\ fetched' = NotFetched
  /\ upstream_calls' = <<>>
  /\ UNCHANGED <<price_cache, news_cache, cache_scope, news_scope, now,
                 GOV_API_KEY, NEWS_API_KEY, threads, writer>>

\* A caller sends GET /api/stats.
GetApiStats == StatsRequest

\* A caller sends GET /api/mandi-prices/<crop_name>, in the runs that use
\* every endpoint.
GetCropPriceFew ==
  \E args \in FewPriceArgs : \E env \in EnvsFor(args) \cap FewPriceEnvs :
    CropRequest(<<"h", "e", "a">>, args, env)

\* Every endpoint in one run, with both keys set.
NextAll ==
  \/ TickBoth
  \/ GetMandiPricesFew
  \/ GetCropPriceFew
  \/ GetAgriculturalNewsFew
  \/ GetApiStats

SpecAll == InitBoth /\ [][NextAll]_vars

-----------------------------------------------------------------------------
(* Concurrent price requests (app.py:720, threaded=True).  Each thread     *)
(* runs get_mandi_prices; a step is one read or one write of a field of    *)
(* price_cache, the upstream fetch, or the return of the response.  The    *)
(* module takes no lock.                                                   *)

ThreadUnchanged ==
  UNCHANGED <<news_cache, news_scope, now, GOV_API_KEY, NEWS_API_KEY>>
NoResponse == UNCHANGED <<request, response, fetched, upstream_calls>>
NoWrite == UNCHANGED <<price_cache, writer, cache_scope>>

\* Thread t takes a request (app.py:443-446).
Arrive(t) ==
  /\ threads[t].pc = "idle"
  /\ \E args \in ConcPriceArgs :
       threads' = [threads EXCEPT ![t] =
                     [Idle EXCEPT !.pc = "check_data", !.args = args]]
  /\ ThreadUnchanged /\ NoResponse /\ NoWrite

\* is_cache_valid, app.py:56: price_cache['data'] is None
CheckData(t) ==
  /\ threads[t].pc = "check_data"
  /\ threads' = [threads EXCEPT ![t].pc =
                   IF price_cache.data = Nil THEN "fetch"
                   ELSE "check_timestamp"]
  /\ ThreadUnchanged /\ NoResponse /\ NoWrite

\* is_cache_valid, app.py:56: price_cache['timestamp'] is None
CheckTimestamp(t) ==
  /\ threads[t].pc = "check_timestamp"
  /\ threads' = [threads EXCEPT ![t].pc =
                   IF price_cache.timestamp = Nil THEN "fetch"
                   ELSE "check_age"]
  /\ ThreadUnchanged /\ NoResponse /\ NoWrite

\* is_cache_valid, app.py:59-60, and the rest of the condition of
\* app.py:448.
CheckAge(t) ==
  /\ threads[t].pc = "check_age"
  /\ LET q == read_args(threads[t].args)
         valid == now - The(price_cache.timestamp) < PriceCacheDuration
     IN  threads' = [threads EXCEPT ![t].pc =
                       IF valid /\ ~q.force /\ ~any_filter(q)
                         THEN "read_data"
                       ELSE "fetch"]
  /\ ThreadUnchanged /\ NoResponse /\ NoWrite

\* app.py:450: cached_data = price_cache['data']
ReadData(t) ==
  /\ threads[t].pc = "read_data"
  /\ threads' = [threads EXCEPT ![t].pc = "read_timestamp",
                                ![t].cached_data = price_cache.data,
                                ![t].data_writer = writer.data]
  /\ ThreadUnchanged /\ NoResponse /\ NoWrite

\* app.py:459: price_cache['timestamp']
ReadTimestamp(t) ==
  /\ threads[t].pc = "read_timestamp"
  /\ threads' = [threads EXCEPT ![t].pc = "respond_cache",
                                ![t].timestamp = price_cache.timestamp,
                                ![t].timestamp_writer = writer.timestamp]
  /\ ThreadUnchanged /\ NoResponse /\ NoWrite

\* app.py:469-478: the fetch and the normalization.
Fetch(t) ==
  /\ threads[t].pc = "fetch"
  /\ \E env \in ConcPriceEnvs :
     \E q \in {read_args(threads[t].args)} :
     \E raw \in {fetch_from_government_api(q.state, q.district, q.commodity,
                                           PriceLimit, env)} :
     \E processed_data \in {IF raw.raised THEN <<>>
                            ELSE process_price_data(raw.data)} :
       threads' = [threads EXCEPT
         ![t].pc = IF processed_data # <<>> THEN "put_data"
                   ELSE "respond_fallback",
         ![t].processed_data = Some(processed_data),
         ![t].fetch = [called |-> TRUE, raised |-> raw.raised,
                       error |-> raw.error, data |-> raw.data],
         ![t].calls = raw.calls]
  /\ ThreadUnchanged /\ NoResponse /\ NoWrite

\* cache_response, app.py:51: price_cache['data'] = data
PutData(t) ==
  /\ threads[t].pc = "put_data"
  /\ price_cache' = [price_cache EXCEPT !.data = threads[t].processed_data]
  /\ writer' = [writer EXCEPT !.data = Some(PutBy(t, now))]
  /\ threads' = [threads EXCEPT ![t].pc = "put_timestamp",
                                ![t].put = Some(PutBy(t, now))]
  /\ ThreadUnchanged /\ NoResponse /\ UNCHANGED cache_scope

\* cache_response, app.py:52: price_cache['timestamp'] = time.time()
PutTimestamp(t) ==
  /\ threads[t].pc = "put_timestamp"
  /\ price_cache' = [price_cache EXCEPT !.timestamp = Some(now)]
  /\ writer' = [writer EXCEPT !.timestamp = threads[t].put]
  /\ cache_scope' = IF any_filter(read_args(threads[t].args)) THEN "scoped"
                    ELSE "unscoped"
  /\ threads' = [threads EXCEPT ![t].pc = "respond_upstream"]
  /\ ThreadUnchanged /\ NoResponse

\* The response built from the thread's local variables (app.py:455-466).
thread_cache_hit_response(q, cached_data, timestamp) ==
  [endpoint  |-> "mandi-prices",
   status    |-> HttpOk,
   success   |-> TRUE,
   prices    |-> apply_filters_to_data(cached_data,
                  q.state, q.district, q.commodity),
   source    |-> "cache",
   timestamp |-> timestamp,
   filters_applied |-> filters_applied(q)]

\* Thread t returns its response (app.py:455, 485, 510).
Respond(t) ==
  /\ threads[t].pc \in {"respond_cache", "respond_upstream",
                        "respond_fallback"}
  /\ LET q == read_args(threads[t].args)
     IN  response' =
           IF threads[t].pc = "respond_cache"
             THEN thread_cache_hit_response(q, The(threads[t].cached_data),
                                            The(threads[t].timestamp))
           ELSE IF threads[t].pc = "respond_upstream"
             THEN upstream_response(q, The(threads[t].processed_data))
           ELSE fallback_response(q)
  /\ request' = [endpoint |-> "mandi-prices", args |-> threads[t].args]
  /\ fetched' = threads[t].fetch
  /\ upstream_calls' = threads[t].calls
  /\ threads' = [threads EXCEPT ![t] = Idle]
  /\ ThreadUnchanged /\ NoWrite

ThreadStep(t) ==
  \/ Arrive(t)
  \/ CheckData(t)
  \/ CheckTimestamp(t)
  \/ CheckAge(t)
  \/ ReadData(t)
  \/ ReadTimestamp(t)
  \/ Fetch(t)
  \/ PutData(t)
  \/ PutTimestamp(t)
  \/ Respond(t)

TickThreads ==
  /\ \E t \in PriceInstants : t > now /\ now' = t
  /\ UNCHANGED <<price_cache, news_cache, GOV_API_KEY, NEWS_API_KEY,
                 request, fetched, cache_scope, news_scope, response,
                 upstream_calls, threads, writer>>

NextThreads == TickThreads \/ \E t \in Threads : ThreadStep(t)

SpecThreads == InitBoth /\ [][NextThreads]_vars

-----------------------------------------------------------------------------
(* The filter applied on its own (app.py:417-436).                         *)

\* The caller's batch and FilterSpec.
InitFilter ==
  /\ price_cache = [data |-> Nil, timestamp |-> Nil]
  /\ news_cache = [data |-> Nil, timestamp |-> Nil]
  /\ now = 0
  /\ GOV_API_KEY = TRUE
  /\ NEWS_API_KEY = TRUE
  /\ \E data \in FilterBatches : \E f \in FilterSpecs :
       request = [endpoint |-> "filter", data |-> data, filters |-> f]
  /\ fetched = NotFetched
  /\ cache_scope = "none"
  /\ news_scope = Nil
  /\ response = NoRequest
  /\ upstream_calls = <<>>
  /\ threads = [t \in Threads |-> Idle]
  /\ writer = [data |-> Nil, timestamp |-> Nil]

ApplyFilters ==
  /\ request.endpoint = "filter"
  /\ response = NoRequest
  /\ response' =
       [endpoint |-> "filter",
        filtered_data |->
          apply_filters_to_data(request.data, request.filters.state,
                                request.filters.district,
                                request.filters.commodity)]
  /\ UNCHANGED <<price_cache, news_cache, now, GOV_API_KEY, NEWS_API_KEY,
                 request, fetched, cache_scope, news_scope, upstream_calls,
                 threads, writer>>

NextFilter == ApplyFilters

SpecFilter == InitFilter /\ [][NextFilter]_vars

-----------------------------------------------------------------------------
(* The price normalizer applied on its own (app.py:171-203).               *)

\* The upstream's raw batch.
InitNormalizer ==
  /\ price_cache = [data |-> Nil, timestamp |-> Nil]
  /\ news_cache = [data |-> Nil, timestamp |-> Nil]
  /\ now = 0
  /\ GOV_API_KEY = TRUE
  /\ NEWS_API_KEY = TRUE
  /\ \E raw_data \in RawBatches :
       request = [endpoint |-> "process_price_data", raw_data |-> raw_data]
  /\ fetched = NotFetched
  /\ cache_scope = "none"
  /\ news_scope = Nil
  /\ response = NoRequest
  /\ upstream_calls = <<>>
  /\ threads = [t \in Threads |-> Idle]
  /\ writer = [data |-> Nil, timestamp |-> Nil]

ProcessPriceData ==
  /\ request.endpoint = "process_price_data"
  /\ response = NoRequest
  /\ response' = [endpoint |-> "process_price_data",
                  processed_prices |-> process_price_data(request.raw_data)]
  /\ UNCHANGED <<price_cache, news_cache, now, GOV_API_KEY, NEWS_API_KEY,
                 request, fetched, cache_scope, news_scope, upstream_calls,
                 threads, writer>>

NextNormalizer == ProcessPriceData

SpecNormalizer == InitNormalizer /\ [][NextNormalizer]_vars

-----------------------------------------------------------------------------
(* The price normalizer and the price endpoint side by side                *)
(* (app.py:171-203, 438-529).                                              *)

\* A raw batch is about to be given to process_price_data.
InitSorting ==
  /\ price_cache = [data |-> Nil, timestamp |-> Nil]
  /\ news_cache = [data |-> Nil, timestamp |-> Nil]
  /\ now = 0
  /\ GOV_API_KEY = TRUE
  /\ NEWS_API_KEY = TRUE
  /\ \E raw_data \in OrderedBatches :
       request = [endpoint |-> "process_price_data", raw_data |-> raw_data]
  /\ fetched = NotFetched
  /\ cache_scope = "none"
  /\ news_scope = Nil
  /\ response = NoRequest
  /\ upstream_calls = <<>>
  /\ threads = [t \in Threads |-> Idle]
  /\ writer = [data |-> Nil, timestamp |-> Nil]

\* Either the program has just started, or a raw batch is about to be
\* normalized.
InitOrdering == Init \/ InitSorting

NextOrdering == TickPrice \/ GetMandiPrices \/ ProcessPriceData

SpecOrdering == InitOrdering /\ [][NextOrdering]_vars

-----------------------------------------------------------------------------
(* The diverse fetch applied on its own (app.py:62-118).                   *)

\* The record limit and the upstream's behaviour.
InitDiverse ==
  /\ price_cache = [data |-> Nil, timestamp |-> Nil]
  /\ news_cache = [data |-> Nil, timestamp |-> Nil]
  /\ now = 0
  /\ GOV_API_KEY = TRUE
  /\ NEWS_API_KEY = TRUE
  /\ \E limit \in MergeLimits : \E env \in MergeEnvs :
       request = [endpoint |-> "fetch_diverse_data", limit |-> limit,
                  env |-> env]
  /\ fetched = NotFetched
  /\ cache_scope = "none"
  /\ news_scope = Nil
  /\ response = NoRequest
  /\ upstream_calls = <<>>
  /\ threads = [t \in Threads |-> Idle]
  /\ writer = [data |-> Nil, timestamp |-> Nil]

FetchDiverseData ==
  /\ request.endpoint = "fetch_diverse_data"
  /\ response = NoRequest
  /\ \E done \in {fetch_diverse_data(request.limit, request.env)} :
       /\ response' = [endpoint |-> "fetch_diverse_data",
                       raised |-> done.raised, data |-> done.data]
       /\ upstream_calls' = done.calls
  /\ UNCHANGED <<price_cache, news_cache, now, GOV_API_KEY, NEWS_API_KEY,
                 request, fetched, cache_scope, news_scope, threads, writer>>

NextDiverse == FetchDiverseData

SpecDiverse == InitDiverse /\ [][NextDiverse]_vars

-----------------------------------------------------------------------------
(* The fetch applied on its own (app.py:120-169).                          *)

\* The filters, the record limit, the upstream's behaviour and whether the
\* data.gov.in key is set.
InitFetch ==
  /\ price_cache = [data |-> Nil, timestamp |-> Nil]
  /\ news_cache = [data |-> Nil, timestamp |-> Nil]
  /\ now = 0
  /\ GOV_API_KEY \in BOOLEAN
  /\ NEWS_API_KEY = TRUE
  /\ \E filters \in FetchFilters : \E limit \in FetchLimits :
     \E env \in FetchEnvs(filters) :
       request = [endpoint |-> "fetch_from_government_api",
                  filters |-> filters, limit |-> limit, env |-> env]
  /\ fetched = NotFetched
  /\ cache_scope = "none"
  /\ news_scope = Nil
  /\ response = NoRequest
  /\ upstream_calls = <<>>
  /\ threads = [t \in Threads |-> Idle]
  /\ writer = [data |-> Nil, timestamp |-> Nil]

FetchFromGovernmentApi ==
  /\ request.endpoint = "fetch_from_government_api"
  /\ response = NoRequest
  /\ \E done \in {fetch_from_government_api(
                    request.filters.state, request.filters.district,
                    request.filters.commodity, request.limit, request.env)} :
       /\ response' = [endpoint |-> "fetch_from_government_api",
                       raised |-> done.raised, data |-> done.data]
       /\ upstream_calls' = done.calls
  /\ UNCHANGED <<price_cache, news_cache, now, GOV_API_KEY, NEWS_API_KEY,
                 request, fetched, cache_scope, news_scope, threads, writer>>

NextFetch == FetchFromGovernmentApi

SpecFetch == InitFetch /\ [][NextFetch]_vars

-----------------------------------------------------------------------------
(* The news normalizer applied on its own (app.py:262-311).                *)

\* The raw batch of NewsAPI.
InitNewsNormalizer ==
  /\ price_cache = [data |-> Nil, timestamp |-> Nil]
  /\ news_cache = [data |-> Nil, timestamp |-> Nil]
  /\ now = 0
  /\ GOV_API_KEY = TRUE
  /\ NEWS_API_KEY = TRUE
  /\ \E raw_data \in NewsBatches :
       request = [endpoint |-> "process_news_data", raw_data |-> raw_data]
  /\ fetched = NotFetched
  /\ cache_scope = "none"
  /\ news_scope = Nil
  /\ response = NoRequest
  /\ upstream_calls = <<>>
  /\ threads = [t \in Threads |-> Idle]
  /\ writer = [data |-> Nil, timestamp |-> Nil]

ProcessNewsData ==
  /\ request.endpoint = "process_news_data"
  /\ response = NoRequest
  /\ \E done \in {process_news_data(request.raw_data)} :
       response' = [endpoint |-> "process_news_data",
                    raised |-> done.raised, processed_news |-> done.news]
  /\ UNCHANGED <<price_cache, news_cache, now, GOV_API_KEY, NEWS_API_KEY,
                 request, fetched, cache_scope, news_scope, upstream_calls,
                 threads, writer>>

NextNewsNormalizer == ProcessNewsData

SpecNewsNormalizer == InitNewsNormalizer /\ [][NextNewsNormalizer]_vars

-----------------------------------------------------------------------------
(* Vocabulary of the properties.                                           *)

\* A step in which GET /api/mandi-prices is handled: the clock stands
\* still and the request handled last is a price query.
PriceStep == now' = now /\ request'.endpoint = "mandi-prices"

\* A step in which GET /api/news is handled.
NewsStep == now' = now /\ request'.endpoint = "news"

\* The price entry is valid: data present and younger than 300 seconds.
PriceEntryValid ==
  /\ price_cache.data # Nil
  /\ price_cache.timestamp # Nil
  /\ now - The(price_cache.timestamp) < 300

\* The request qualifies for a cache hit: no force flag and no filter.
Plain(q) ==
  ~q.force /\ q.state = <<>> /\ q.district = <<>> /\ q.commodity = <<>>

\* A record matches a FilterSpec: every non-empty filter equals the
\* record's field case-insensitively.
Matches(item, f) ==
  /\ f.state # <<>> => Lower(item.state) = Lower(f.state)
  /\ f.district # <<>> => Lower(item.district) = Lower(f.district)
  /\ f.commodity # <<>> => Lower(item.name) = Lower(f.commodity)

\* The static dataset filtered by a FilterSpec and capped at 35 records.
StaticAnswer(f) ==
  LET Keep(item) == Matches(item, f)
      kept == SelectSeq(get_fallback_data, Keep)
  IN  SubSeq(kept, 1, IF Len(kept) < 35 THEN Len(kept) ELSE 35)

\* The upstream result holds at least one record that passes normalization.
HasValidRecord(fetch) ==
  /\ ~fetch.raised
  /\ "records" \in DOMAIN fetch.data
  /\ \E i \in 1..Len(fetch.data.records) :
       process_price_record(fetch.data.records[i]) # <<>>

-----------------------------------------------------------------------------
(* Properties of the price query.                                          *)

\* C1: a price query is answered from cache if and only if, at request
\* time, the price cache is valid, force-refresh is not requested and the
\* three filters are empty; in every other case the fetch path is taken.
C1_DecideSource ==
  [][ PriceStep =>
        LET hit == PriceEntryValid /\ Plain(read_args(request'.args))
        IN  /\ (response'.source = "cache") <=> hit
            /\ fetched'.called <=> ~hit ]_vars

\* C1 witness: a filtered request arrived while the cache was still valid
\* and went to the upstream.
C1_Witness ==
  /\ request.endpoint = "mandi-prices"
  /\ read_args(request.args).state # <<>>
  /\ response.timestamp = now
  /\ PriceEntryValid
  /\ The(price_cache.timestamp) < now
  /\ fetched.called

\* C2: in each domain the cache entry is valid if and only if its data is
\* present and now - fetchedAt is strictly less than the validity window,
\* 300 s for prices and 1800 s for news; so an entry whose age equals the
\* window is invalid, and so is an entry that was never populated (its data
\* and its fetchedAt are then both absent).
C2_CacheValidity ==
  /\ (price_cache.data = Nil) <=> (price_cache.timestamp = Nil)
  /\ (news_cache.data = Nil) <=> (news_cache.timestamp = Nil)
  /\ is_cache_valid <=>
       (price_cache.data # Nil /\ now - The(price_cache.timestamp) < 300)
  /\ is_news_cache_valid <=>
       (news_cache.data # Nil /\ now - The(news_cache.timestamp) < 1800)

\* C2 witness: both entries are populated and each is exactly as old as its
\* window, and neither is valid.
C2_Witness ==
  /\ price_cache.data # Nil
  /\ news_cache.data # Nil
  /\ now - The(price_cache.timestamp) = 300
  /\ now - The(news_cache.timestamp) = 1800
  /\ ~is_cache_valid
  /\ ~is_news_cache_valid

\* C3: a cache hit returns the whole cached batch with the cache's
\* fetchedAt as timestamp, makes no upstream call and leaves the cache
\* entry as it was.
C3_CacheHitPure ==
  [][ (PriceStep /\ PriceEntryValid /\ Plain(read_args(request'.args))) =>
        /\ response'.source = "cache"
        /\ response'.success
        /\ response'.prices = The(price_cache.data)
        /\ response'.timestamp = The(price_cache.timestamp)
        /\ upstream_calls' = <<>>
        /\ ~fetched'.called
        /\ price_cache' = price_cache ]_vars

\* C3 witness: a cache hit on an entry put earlier.
C3_Witness ==
  /\ response.endpoint = "mandi-prices"
  /\ response.source = "cache"
  /\ response.timestamp < now
  /\ upstream_calls = <<>>

\* C4: when the fetch path is taken and the upstream result holds a record
\* that passes normalization, the response is a success tagged
\* government_api and right afterwards the cache holds the normalized batch
\* stamped with the time of the put, so it is valid.
C4_FetchPopulatesCache ==
  [][ (PriceStep /\ fetched'.called /\ HasValidRecord(fetched')) =>
        /\ response'.source = "government_api"
        /\ response'.success
        /\ price_cache' = [data |-> Some(process_price_data(fetched'.data)),
                          timestamp |-> Some(now)]
        /\ PriceEntryValid' ]_vars

\* C4 witness: a fetch at a later instant replaced an older entry.
C4_Witness ==
  /\ response.endpoint = "mandi-prices"
  /\ response.source = "government_api"
  /\ price_cache.timestamp = Some(now)
  /\ now > 0
  /\ Len(The(price_cache.data)) > 1

\* C5: when the fetch path is taken and the upstream fetch fails or
\* normalizes to an empty batch, the query does not raise and returns
\* success with provenance fallback and the static dataset filtered by the
\* request's filters, capped at 35.
C5_FallbackOnFailure ==
  [][ (PriceStep /\ fetched'.called /\ ~HasValidRecord(fetched')) =>
        /\ response'.status = 200
        /\ response'.success
        /\ response'.source = "fallback"
        /\ response'.prices = StaticAnswer(read_args(request'.args)) ]_vars

\* C5 witness: the upstream answered a filtered request with records that
\* were all rejected, and the filtered static dataset was returned.
C5_Witness ==
  /\ response.endpoint = "mandi-prices"
  /\ response.source = "fallback"
  /\ fetched.called /\ ~fetched.raised
  /\ "records" \in DOMAIN fetched.data
  /\ fetched.data.records # <<>>
  /\ response.filters_applied.state # <<>>
  /\ response.prices # <<>>

\* C6 as stated: a response has provenance fallback only if, at request
\* time, the price cache was not valid and the upstream fetch failed or
\* normalized to an empty batch.
C6_FallbackOnlyWhenCacheInvalid ==
  [][ (PriceStep /\ response'.source = "fallback") =>
        /\ ~PriceEntryValid
        /\ ~HasValidRecord(fetched') ]_vars

\* C6 amended: a response has provenance fallback only if the request did
\* not qualify for a cache hit (cache not valid, or force flag set, or a
\* filter supplied) and the upstream fetch failed or normalized to an empty
\* batch.
C6_FallbackOnlyAfterMissAndFailure ==
  [][ (PriceStep /\ response'.source = "fallback") =>
        /\ ~(PriceEntryValid /\ Plain(read_args(request'.args)))
        /\ fetched'.called
        /\ ~HasValidRecord(fetched') ]_vars

\* C6 witness: the fallback dataset was served while the cache was valid.
C6_Witness ==
  /\ response.endpoint = "mandi-prices"
  /\ response.source = "fallback"
  /\ response.timestamp = now
  /\ PriceEntryValid

\* C7: whatever the provenance, every record of a price response matches
\* the filters of the request case-insensitively.
C7_ResponseFiltered ==
  response.endpoint = "mandi-prices" =>
    \A i \in 1..Len(response.prices) :
      Matches(response.prices[i], response.filters_applied)

\* C8: a cache hit never serves a batch that was fetched under an earlier
\* request's filter: an unfiltered query gets unscoped data.
C8_CacheHitUnscoped ==
  (response.endpoint = "mandi-prices" /\ response.source = "cache") =>
    cache_scope = "unscoped"

\* C9: a request that ends in fallback leaves the cache entry as it was;
\* the cache changes only in a successful fetch, and then to the normalized
\* upstream batch stamped now, never to fallback data.
C9_FailureLeavesCache ==
  [][ /\ (PriceStep /\ response'.source = "fallback") =>
           price_cache' = price_cache
      /\ price_cache' # price_cache =>
           /\ PriceStep
           /\ response'.source = "government_api"
           /\ HasValidRecord(fetched')
           /\ price_cache' =
                [data |-> Some(process_price_data(fetched'.data)),
                 timestamp |-> Some(now)] ]_vars

\* C9 witness: a populated cache survived a request that fell back.
C9_Witness ==
  /\ response.endpoint = "mandi-prices"
  /\ response.source = "fallback"
  /\ fetched.called
  /\ price_cache.data # Nil

\* C10 as stated: when the upstream call raises a transport error and no
\* cache exists, the response is a success with provenance fallback and a
\* non-empty list, for any filters.
C10_FallbackNonEmpty ==
  [][ (PriceStep /\ fetched'.error = "transport" /\ price_cache.data = Nil) =>
        /\ response'.source = "fallback"
        /\ response'.success
        /\ response'.prices # <<>> ]_vars

\* C10 amended: in that case the response is a success with provenance
\* fallback whose list is the static dataset filtered by the supplied
\* filters; it is non-empty exactly when some static record matches them,
\* and holds the whole dataset when no filter is supplied.
C10_FallbackFiltered ==
  [][ (PriceStep /\ fetched'.error = "transport" /\ price_cache.data = Nil) =>
        LET f == read_args(request'.args)
        IN  /\ response'.source = "fallback"
            /\ response'.success
            /\ response'.prices = StaticAnswer(f)
            /\ response'.prices # <<>> <=>
                 \E i \in 1..Len(get_fallback_data) :
                   Matches(get_fallback_data[i], f)
            /\ (f.state = <<>> /\ f.district = <<>> /\ f.commodity = <<>>) =>
                 response'.prices # <<>> ]_vars

\* C10 witness: a transport error with an empty cache, answered with the
\* static records that match the filters.
C10_Witness ==
  /\ response.endpoint = "mandi-prices"
  /\ fetched.error = "transport"
  /\ price_cache.data = Nil
  /\ response.source = "fallback"
  /\ response.filters_applied.commodity # <<>>
  /\ response.prices # <<>>

-----------------------------------------------------------------------------
(* Properties of the response size, the cache clock and the filter.        *)

\* C11: every successful price response holds at most 35 records, whatever
\* its provenance and however many records the upstream returned on the
\* fetch that populated the cache.
C11_ResponseCapped ==
  (response.endpoint = "mandi-prices" /\ response.success) =>
    Len(response.prices) <= 35

\* C12: an entry stamped fetchedAt is valid at every time from fetchedAt up
\* to, and not including, fetchedAt + window, and invalid from then on;
\* while no put intervenes an invalid entry stays invalid, and an entry
\* turns from invalid to valid only in a request whose fetch succeeded and
\* which stamps it with the time of that request.
C12_ValidityMonotonic ==
  [][ /\ price_cache'.timestamp # Nil =>
           /\ The(price_cache'.timestamp) <= now'
           /\ is_cache_valid' <=>
                now' < The(price_cache'.timestamp) + 300
      /\ news_cache'.timestamp # Nil =>
           /\ The(news_cache'.timestamp) <= now'
           /\ is_news_cache_valid' <=>
                now' < The(news_cache'.timestamp) + 1800
      /\ (price_cache' = price_cache /\ ~is_cache_valid) => ~is_cache_valid'
      /\ (news_cache' = news_cache /\ ~is_news_cache_valid) =>
           ~is_news_cache_valid'
      /\ (~is_cache_valid /\ is_cache_valid') =>
           /\ PriceStep
           /\ response'.source = "government_api"
           /\ price_cache'.timestamp = Some(now)
      /\ (~is_news_cache_valid /\ is_news_cache_valid') =>
           /\ NewsStep
           /\ response'.source = "newsapi"
           /\ news_cache'.timestamp = Some(now) ]_vars

\* C12 witness: one second before the end of their windows, a price entry
\* stamped by a fetch at 1500 and a news entry stamped at start-up are both
\* still valid.
C12_Witness ==
  /\ now = 1799
  /\ price_cache.timestamp = Some(1500)
  /\ is_cache_valid
  /\ news_cache.timestamp = Some(0)
  /\ is_news_cache_valid

\* C13: a cache-hit response pairs a batch with the fetchedAt stamped by the
\* put that stored that batch: whenever a thread is about to return a cache
\* hit, the data it read and the timestamp it read were written by the same
\* put.
C13_CacheHitAtomic ==
  \A t \in Threads :
    threads[t].pc = "respond_cache" =>
      threads[t].data_writer = threads[t].timestamp_writer

\* C14: apply_filters_to_data returns exactly the records of the input that
\* match every non-empty filter field by case-insensitive equality, in the
\* order of the input.
C14_FilterSemantics ==
  response.endpoint = "filter" =>
    LET Keep(item) == Matches(item, request.filters)
    IN  response.filtered_data = SelectSeq(request.data, Keep)

\* C14 witness: a batch of three records filtered by a lower-case state and
\* an upper-case commodity, of which the first and the last survive and the
\* middle one does not.
C14_Witness ==
  /\ response.endpoint = "filter"
  /\ request.filters.state = <<"p", "u", "n", "j", "a", "b">>
  /\ request.filters.commodity = <<"R", "I", "C", "E">>
  /\ Len(request.data) = 3
  /\ response.filtered_data = <<request.data[1], request.data[3]>>
  /\ request.data[2].name = StrWheat

\* C15: filtering a filtered batch by the same FilterSpec changes nothing,
\* and the state, district and commodity predicates applied one at a time
\* in any of the six orders give the result of the filter.
C15_FilterIdempotentAnyOrder ==
  response.endpoint = "filter" =>
    LET f == request.filters
        S(b) == apply_filters_to_data(b, f.state, Empty, Empty)
        D(b) == apply_filters_to_data(b, Empty, f.district, Empty)
        C(b) == apply_filters_to_data(b, Empty, Empty, f.commodity)
        out == response.filtered_data
    IN  /\ apply_filters_to_data(out, f.state, f.district, f.commodity) = out
        /\ S(D(C(request.data))) = out
        /\ S(C(D(request.data))) = out
        /\ D(S(C(request.data))) = out
        /\ D(C(S(request.data))) = out
        /\ C(S(D(request.data))) = out
        /\ C(D(S(request.data))) = out

\* C15 witness: all three filters are set and each of them alone removes a
\* record that the others keep.
C15_Witness ==
  /\ response.endpoint = "filter"
  /\ request.filters.state # Empty
  /\ request.filters.district # Empty
  /\ request.filters.commodity # Empty
  /\ Len(response.filtered_data) = 1
  /\ Len(apply_filters_to_data(request.data, request.filters.state, Empty, Empty)) = 2
  /\ Len(apply_filters_to_data(request.data, Empty, request.filters.district, Empty)) = 2
  /\ Len(apply_filters_to_data(request.data, Empty, Empty, request.filters.commodity)) = 2

-----------------------------------------------------------------------------
(* Properties of the normalizers.                                          *)

\* C16: every record of a batch produced by process_price_data has a price
\* above zero and a name that, trimmed, is longer than two characters and is
\* not 'Unknown'.
C16_NormalizedNames ==
  response.endpoint = "process_price_data" =>
    \A i \in 1..Len(response.processed_prices) :
      LET item == response.processed_prices[i]
      IN  /\ item.price > 0
          /\ Len(Strip(item.name)) > 2
          /\ Strip(item.name) # StrUnknown

\* The price of a raw record is a number above zero.
PricePositive(record) ==
  LET modal     == Get(record, "Modal_Price", None)
      minp      == Get(record, "Min_Price", None)
      price_str == IF Truthy(modal) THEN modal
                   ELSE IF Truthy(minp) THEN minp ELSE StrZero
  IN  Float(price_str).ok /\ Float(price_str).v > 0

\* C17: process_price_data emits no record for a raw record whose price is
\* not a number above zero: every emitted price is above zero and there are
\* no more emitted records than raw records with such a price.
C17_BadPriceRejected ==
  response.endpoint = "process_price_data" =>
    LET records == request.raw_data.records
        out == response.processed_prices
    IN  /\ \A i \in 1..Len(out) : out[i].price > 0
        /\ Len(out) <= Cardinality({i \in 1..Len(records) :
                                      PricePositive(records[i])})

\* C17 witness: a batch of a record priced '-5' and a record priced '2150',
\* both named Wheat, of which only the second is emitted.
C17_Witness ==
  /\ response.endpoint = "process_price_data"
  /\ Len(request.raw_data.records) = 2
  /\ Get(request.raw_data.records[1], "Modal_Price", None) = <<"-", "5">>
  /\ Get(request.raw_data.records[1], "Commodity", None) = StrWheat
  /\ Len(response.processed_prices) = 1
  /\ response.processed_prices[1].price = 215000

\* An article that passes the validation of process_news_data: a title of
\* more than 10 and a description of more than 20 characters once trimmed.
ValidArticle(article) ==
  /\ "title" \in DOMAIN article /\ article.title # None
  /\ "description" \in DOMAIN article /\ article.description # None
  /\ Len(Strip(article.title)) > 10
  /\ Len(Strip(article.description)) > 20

\* C18: a malformed record is dropped alone: when NewsAPI answers a news
\* request with a batch that holds a valid article, the response is built
\* from that batch (source 'newsapi') whatever the other articles are, and
\* the request does not degrade to fallback.
C18_RejectionLocal ==
  ( /\ request.endpoint = "news"
    /\ fetched.called /\ ~fetched.raised
    /\ "articles" \in DOMAIN fetched.data
    /\ \E i \in 1..Len(fetched.data.articles) :
         ValidArticle(fetched.data.articles[i]) )
  => response.source = "newsapi"

-----------------------------------------------------------------------------
(* Properties of the diverse fetch and of the single-commodity lookup.     *)

\* A partition answered successfully with records.
Answered(outcome) ==
  /\ outcome.kind = "response" /\ outcome.status = HttpOk /\ outcome.json
  /\ "records" \in DOMAIN outcome.data
  /\ outcome.data.records # <<>>

\* The record lists of the partitions that answered, one after the other in
\* partition order, from partition i on.
RECURSIVE Merged(_, _)
Merged(outcomes, i) ==
  IF i > Len(outcomes) THEN <<>>
  ELSE (IF Answered(outcomes[i]) THEN outcomes[i].data.records ELSE <<>>)
         \o Merged(outcomes, i + 1)

\* C19: when some partitions fail and at least one answers with records,
\* fetch_diverse_data does not raise and returns the first `limit` records
\* of the answering partitions' record lists joined in partition order.
C19_DiverseMerge ==
  ( /\ response.endpoint = "fetch_diverse_data"
    /\ \E i \in 1..Len(request.env.partitions) :
         Answered(request.env.partitions[i]) )
  => /\ ~response.raised
     /\ LET merged == Merged(request.env.partitions, 1)
        IN  response.data.records =
              [k \in 1..Min(request.limit, Len(merged)) |-> merged[k]]

\* C19 witness: with a limit of 3, the first partition answers with two
\* records, the second raises and the last answers with two records; the
\* result is the first partition's two records and the last one's first.
C19_Witness ==
  /\ response.endpoint = "fetch_diverse_data"
  /\ request.limit = 3
  /\ request.env.partitions[2].kind = "exception"
  /\ ~response.raised
  /\ response.data.records =
       <<PartitionRecord(1, 1), PartitionRecord(1, 2),
         PartitionRecord(Len(major_states), 1)>>

\* C20: the lookup answers 404 with success = false exactly when no record
\* of the price-query result has a name containing the requested commodity
\* in any letter case; otherwise it answers with success and exactly the
\* matching records in the result's order; it never answers 500, whether or
\* not the upstream call failed.
C20_CropLookup ==
  request.endpoint = "crop-price" =>
    LET wanted == Lower(request.crop_name)
        prices == request.data.prices
        hits == {i \in 1..Len(prices) : Contains(Lower(prices[i].name), wanted)}
        Hit(price) == Contains(Lower(price.name), wanted)
    IN  /\ response.status # HttpServerError
        /\ (response.status = HttpNotFound /\ ~response.success) <=> hits = {}
        /\ hits # {} =>
             /\ response.success /\ response.status = HttpOk
             /\ response.prices = SelectSeq(prices, Hit)

\* C20 witness: the upstream call raised, and the lookup of a part of a name
\* in the fallback-based result answers with the matching records.
C20_Witness ==
  /\ request.endpoint = "crop-price"
  /\ request.crop_name = <<"h", "e", "a">>
  /\ fetched.called /\ fetched.raised
  /\ request.data.source = "fallback"
  /\ response.success
  /\ Len(response.prices) >= 1
  /\ Len(response.prices) < Len(request.data.prices)

-----------------------------------------------------------------------------
(* Properties of the news query and of the two caches.                     *)

\* The news cache entry is valid at the time of the request.
NewsEntryValid ==
  /\ news_cache.data # Nil
  /\ now - The(news_cache.timestamp) < 1800

\* The news request is answered from cache exactly when `hit`, and takes the
\* fetch path exactly when not.
NewsSourceDecidedBy(hit) ==
  /\ (Get(response', "source", "none") = "cache") <=> hit
  /\ fetched'.called <=> ~hit

\* C21 as stated: every news query is answered from cache if and only if
\* the news cache is valid, force-refresh is not requested and the category
\* is 'all'; in every other case the fetch path is taken.
C21_DecideSourceNews ==
  [][ NewsStep =>
        LET q == read_news_args(request'.args)
        IN  NewsSourceDecidedBy(NewsEntryValid /\ ~q.force
                                /\ q.category = StrAll) ]_vars

\* C21 amended: every news query whose limit is an integer is answered from
\* cache if and only if the news cache is valid, force-refresh is not
\* requested and the category is 'all', and takes the fetch path in every
\* other case; a query whose limit is not an integer is answered with an
\* internal error before the cache is consulted.
C21_DecideSourceNewsReadable ==
  [][ NewsStep =>
        LET q == read_news_args(request'.args)
        IN  IF q.limit.ok
              THEN NewsSourceDecidedBy(NewsEntryValid /\ ~q.force
                                       /\ q.category = StrAll)
            ELSE response'.status = 500 /\ ~fetched'.called ]_vars

\* C21 witness: a request for the category 'policy' arrived while the news
\* cache was valid and went to the fetch path.
C21_Witness ==
  /\ request.endpoint = "news"
  /\ read_news_args(request.args).category = StrPolicy
  /\ news_cache.timestamp # Nil
  /\ The(news_cache.timestamp) < now
  /\ is_news_cache_valid
  /\ fetched.called
  /\ response.timestamp = now

\* C22: a step that handles a price query or a single-commodity lookup
\* leaves the news cache entry as it was, a step that handles a news query
\* leaves the price cache entry as it was, and a step that handles the
\* diagnostics request leaves both as they were.
C22_CachesIndependent ==
  [][ now' = now =>
        /\ request'.endpoint \in {"mandi-prices", "crop-price"}
             => news_cache' = news_cache
        /\ request'.endpoint = "news" => price_cache' = price_cache
        /\ request'.endpoint = "stats"
             => price_cache' = price_cache /\ news_cache' = news_cache ]_vars

\* C22 witness: the price entry was put at time 0 and the news entry at
\* time 299, each keeps its own batch and stamp, and the diagnostics request
\* has just reported the price entry.
C22_Witness ==
  /\ request.endpoint = "stats"
  /\ price_cache.timestamp = Some(0)
  /\ news_cache.timestamp = Some(299)
  /\ now = 299
  /\ response.cache_info.cache_valid
  /\ response.cache_info.data_count = Len(The(price_cache.data))
  /\ The(news_cache.data)[1].category = StrPolicy

\* C23: the articles returned for a news query with a category other than
\* 'all' all have that category, whether the response was built from the
\* upstream batch or from the static fallback.
C23_NewsFiltered ==
  ( /\ request.endpoint = "news"
    /\ response.success
    /\ read_news_args(request.args).category # StrAll )
  => \A i \in 1..Len(response.news) :
       response.news[i].category = read_news_args(request.args).category

-----------------------------------------------------------------------------
(* Properties of the upstream calls.                                       *)

\* The fetch has no filter.
Unfiltered(filters) ==
  filters.state = Empty /\ filters.district = Empty /\ filters.commodity = Empty

\* The calls of one run of the diverse fetch: the 8 partitions once each in
\* list order, then the unscoped call if and only if no partition answered
\* with records.
DiverseCallSequence ==
  LET n == Len(major_states)
      answered == \E i \in 1..n : Answered(request.env.partitions[i])
  IN  /\ Len(upstream_calls) = IF answered THEN n ELSE n + 1
      /\ \A i \in 1..n :
           upstream_calls[i].filters = [State |-> major_states[i]]
      /\ ~answered => upstream_calls[n + 1].filters = NoFilters

\* C24 as stated: an unfiltered fetch queries each partition once in list
\* order and then the unscoped endpoint if and only if no partition yielded
\* a record, at most 9 calls; a filtered fetch makes exactly 1 call.
C24_CallSequence ==
  response.endpoint = "fetch_from_government_api" =>
    IF Unfiltered(request.filters)
      THEN GOV_API_KEY => DiverseCallSequence
    ELSE Len(upstream_calls) = 1

\* C24 amended: with the data.gov.in key set, an unfiltered fetch queries
\* each partition once in list order and then the unscoped endpoint if and
\* only if no partition yielded a record, at most 9 calls, and a filtered
\* fetch makes exactly 1 call, which carries the filters; without the key
\* no call is made.
C24_CallSequenceWithKey ==
  response.endpoint = "fetch_from_government_api" =>
    IF ~GOV_API_KEY THEN upstream_calls = <<>> /\ response.raised
    ELSE IF Unfiltered(request.filters)
      THEN DiverseCallSequence /\ Len(upstream_calls) <= 9
    ELSE /\ Len(upstream_calls) = 1
         /\ DOMAIN upstream_calls[1].filters # {}

\* C24 witness: the first partition raised, the second answered with
\* records, and the run queried all 8 partitions and not the unscoped
\* endpoint.
C24_Witness ==
  /\ response.endpoint = "fetch_from_government_api"
  /\ Unfiltered(request.filters)
  /\ request.env.partitions[1].kind = "exception"
  /\ Answered(request.env.partitions[2])
  /\ Len(upstream_calls) = 8
  /\ upstream_calls[8].filters = [State |-> major_states[8]]

\* C25: every partition query of one run carries the same record cap,
\* max(5, floor(limit / 8)): 6 for a limit of 50, 5 for the limit of 35
\* that the price orchestrator uses.
C25_PartitionCap ==
  ( /\ response.endpoint = "fetch_from_government_api"
    /\ Unfiltered(request.filters)
    /\ GOV_API_KEY )
  => LET quotient == CHOOSE k \in 0..request.limit :
                       8 * k <= request.limit /\ request.limit < 8 * (k + 1)
         cap == IF quotient > 5 THEN quotient ELSE 5
     IN  /\ \A i \in 1..8 : upstream_calls[i].limit = cap
         /\ request.limit = 50 => cap = 6
         /\ request.limit = 35 => cap = 5

\* C25 witness: a run with a limit of 50 in which the first and the last
\* partition were asked for 6 records.
C25_Witness ==
  /\ response.endpoint = "fetch_from_government_api"
  /\ Unfiltered(request.filters)
  /\ request.limit = 50
  /\ Len(upstream_calls) >= 8
  /\ upstream_calls[1].limit = 6
  /\ upstream_calls[8].limit = 6

-----------------------------------------------------------------------------
(* Properties of the batches.                                              *)

\* C26 as stated: in a batch returned by process_news_data each article's
\* id is its 1-based position in that batch.
C26_NewsIdsArePositions ==
  (response.endpoint = "process_news_data" /\ ~response.raised) =>
    \A i \in 1..Len(response.processed_news) :
      response.processed_news[i].id = i

\* C26 amended: in a batch of n articles returned by process_news_data the
\* ids are pairwise distinct and are exactly 1..n, and the article with id k
\* is the k-th accepted article of the raw batch (rejected articles consume
\* no id); the batch itself is in date order, so an id need not be the
\* article's position in it.
C26_NewsIdsByAcceptance ==
  (response.endpoint = "process_news_data" /\ ~response.raised) =>
    LET articles == request.raw_data.articles
        out == response.processed_news
        accepted == {j \in 1..Len(articles) : ValidArticle(articles[j])}
        Rank(j) == Cardinality({l \in accepted : l <= j})
    IN  /\ Len(out) = Cardinality(accepted)
        /\ {out[i].id : i \in 1..Len(out)} = 1..Len(out)
        /\ \A i \in 1..Len(out) :
             \E j \in accepted :
               /\ Rank(j) = out[i].id
               /\ out[i].title = Strip(articles[j].title)

\* C26 witness: a raw batch of an article, a rejected article and a newer
\* article; the batch returned holds the newer article, with id 2, before
\* the older one, with id 1.
C26_Witness ==
  /\ response.endpoint = "process_news_data"
  /\ ~response.raised
  /\ Len(request.raw_data.articles) = 3
  /\ ~ValidArticle(request.raw_data.articles[2])
  /\ Len(response.processed_news) = 2
  /\ response.processed_news[1].id = 2
  /\ response.processed_news[2].id = 1

\* The prices of a batch never go up from one record to the next.
NonIncreasing(batch) ==
  \A i \in 1..(Len(batch) - 1) : batch[i].price >= batch[i + 1].price

\* `sorted` holds the records of `batch`, those of each price in the order
\* they have in `batch`.
KeepsTies(sorted, batch) ==
  /\ Len(sorted) = Len(batch)
  /\ \A i \in 1..Len(batch) :
       LET SamePrice(item) == item.price = batch[i].price
       IN  SelectSeq(sorted, SamePrice) = SelectSeq(batch, SamePrice)

\* C27: the batch returned by process_price_data is in non-increasing price
\* order, records of equal price keeping the order in which they were
\* accepted; and every price response with provenance government_api or
\* cache is in non-increasing price order.
C27_BatchOrdering ==
  /\ response.endpoint = "process_price_data" =>
       /\ NonIncreasing(response.processed_prices)
       /\ KeepsTies(response.processed_prices,
                    process_price_records(request.raw_data.records))
  /\ (response.endpoint = "mandi-prices"
        /\ response.source \in {"government_api", "cache"}) =>
       NonIncreasing(response.prices)

\* C27 witness: of three raw records the first is the cheapest and the
\* other two cost the same; the batch returned starts with those two, in
\* the order in which they came, and ends with the first.
C27_Witness ==
  /\ response.endpoint = "process_price_data"
  /\ Len(request.raw_data.records) = 3
  /\ Len(response.processed_prices) = 3
  /\ response.processed_prices[1].name = <<"a", "b">>
  /\ response.processed_prices[2].name = StrWheat
  /\ response.processed_prices[1].price = response.processed_prices[2].price
  /\ response.processed_prices[3].name = StrRice
  /\ response.processed_prices[3].price < response.processed_prices[2].price
  /\ Get(request.raw_data.records[1], "Commodity", None) = StrRice

-----------------------------------------------------------------------------
(* Properties of what the caches hold.                                     *)

\* C28: the news cache holds only batches fetched for category 'all': the
\* batch it holds, and so the batch a cache hit serves, was never fetched
\* for one of the categories policy, market, weather or technology.
C28_NewsCacheOnlyAll ==
  /\ news_cache.data # Nil => news_scope = Some(StrAll)
  /\ (response.endpoint = "news" /\ response.success
        /\ response.source = "cache") => news_scope = Some(StrAll)

\* C29: the price cache's data is absent or a non-empty normalized batch
\* (prices above zero, in non-increasing order); once present it never
\* becomes absent; and every price response with provenance cache holds at
\* least one record.
C29_CachedBatchNonEmpty ==
  [][ /\ price_cache'.data # Nil =>
           /\ The(price_cache'.data) # <<>>
           /\ \A i \in 1..Len(The(price_cache'.data)) :
                The(price_cache'.data)[i].price > 0
           /\ NonIncreasing(The(price_cache'.data))
      /\ price_cache.data # Nil => price_cache'.data # Nil
      /\ (PriceStep /\ response'.source = "cache") =>
           response'.prices # <<>> ]_vars

\* C29 witness: the cache holds the two records fetched at start-up and a
\* request is answered with them from it, one second before the entry
\* expires.
C29_Witness ==
  /\ response.endpoint = "mandi-prices"
  /\ response.source = "cache"
  /\ Len(response.prices) = 2
  /\ price_cache.data = Some(response.prices)
  /\ now = PriceCacheDuration - 1
  /\ The(price_cache.timestamp) = 0
====
